---- MODULE Spec2Model ----
(***************************************************************************)
(* A model of torc (Tools for Orchestrating Reactive Computations):        *)
(* Observable.subscribe and its normalisation of the three teardown        *)
(* shapes, the Wire multicast hub, the par and prune combinators over a    *)
(* single-threaded event loop, the sites pure, each and keep, and the      *)
(* Behavior (Signal).                                                      *)
(*                                                                         *)
(* The code is single-threaded.  A handler (a continuation's next) runs    *)
(* to completion inside the call that invoked it, and may itself call the  *)
(* API re-entrantly.  The Wire model therefore keeps an explicit call      *)
(* stack of broadcasts in progress: API operations are enabled for the     *)
(* outside caller (empty stack) and for the handler that is running (top   *)
(* frame running), never between two handlers of one forEach.              *)
(***************************************************************************)
EXTENDS Integers, Sequences, FiniteSets, TLC

VARIABLES
  subscribers,   \* Wire._subscribers: sequence of observers
  done,          \* Wire._done
  acts,          \* the Activities Wire.subscribe has returned, in call order
  stack,         \* Wire.next calls in progress, innermost last
  ops,           \* number of API calls made
  \* par(sources) subscribed once, and the event loop
  parSources,    \* the sources handed to par: [kind, value]
  parMode,       \* who subscribed: a plain continuation, or prune's callback
  parResult,     \* what the downstream continuation's next returns
  parError,      \* the last error a call raised, or "none"
  parPhase,      \* "new", or "subscribed" once par's subscribe has returned
  subQueue,      \* pending setTimeout(.., 0) callbacks of par, oldest first
  activities,    \* par's activities array: the sources whose Activity was pushed
  srcSubs,       \* how often each source was subscribed
  timer,         \* the host timer of each timer source
  srcFinish,     \* finish calls made on each source's Activity
  cleared,       \* how often each timer source's disposer ran
  parFinishCalls, \* finish calls the caller made on par's Activity
  downstream,    \* the deliveries to the downstream continuation: <<source, value>>
  unstartedAtFinish, \* sources still not subscribed when a finish was called
  startedAtFinish,   \* sources whose Activity was pushed when a finish was called
  quietAtFinish,     \* those of them that had not emitted by then
  \* prune()(source) subscribed once
  prSource,      \* the source: [kind, values]
  prTarget,      \* the language level the build compiles to
  prPhase,       \* "new", "returned" (subscribe returned) or "threw"
  prBound,       \* prune's const activity has been initialised
  prCancelled,   \* the cancelled flag of each's subscription
  prTask,        \* each's deferred loop: "none", "scheduled", "running", "over"
  prPos,         \* the element each's loop is at
  prEvents,      \* finish calls on the source's Activity and downstream deliveries
  prExtFinish,   \* finish calls the caller made
  prError,       \* the error prune's subscribe raised, or "none"
  \* one of pure(v), each(S), keep(promise) subscribed once
  siSource,      \* the site: [kind, values]
  siResult,      \* what the continuation's next returns
  siPhase,       \* "new", or "returned" once subscribe has returned
  siActivity,    \* what subscribe returned
  siCancelled,   \* the cancelled flag of the subscription
  siTask,        \* the deferred callback: "none", "scheduled", "running", "over"
  siPos,         \* the element each's loop is at
  siLog,         \* the invocations of the continuation: <<value, turn>>
  siFinish,      \* finish calls made on the Activity
  siError,       \* the error a finish call raised, or "none"
  kpPromise,     \* the promise handed to keep: "pending" or "resolved"
  kpEarly,       \* finish was called before the promise resolved
  kpBeforeRun,   \* finish was called before the then callback ran
  \* a Behavior (Signal), a Wire with a current value
  build,         \* the class: "Behavior" or "Signal"
  value,         \* Behavior._value
  lastNext,      \* the argument of the latest next call made while not done
  lateNext,      \* a next call was made while done
  stale,         \* depths of the calls in progress that a later accepted next overtook
  seen,          \* the invocations of continuations: <<continuation, value, how>>
  raised,        \* errors continuations raised during a broadcast
  \* a pipeline of map, filter, join and then over one source
  opShape,       \* the pipeline: its stages, and those of a second subscription
  opSource,      \* what the source emits, in order
  opSub,         \* the subscriptions made
  opPos,         \* per subscription, the next element the source emits to it
  opCnt,         \* the count field of each stage's observer object
  opActive,      \* per subscription, the deferred inner streams join subscribed
  opOut,         \* per subscription, the values delivered downstream
  opFinish,      \* per subscription, finish calls made on the pipeline's Activity
  opDisposed,    \* per subscription, calls of the source's disposer
  opLate,        \* per subscription, values delivered after a finish call
  \* an observable made by shift(fn), subscribed through Observable.subscribe
  shFn,          \* fn: the calls of k it makes and what it returns
  shCont,        \* what the downstream continuation returns
  shObserver,    \* what the subscribe call in progress was handed
  shPhase,       \* "idle", or "running" inside fn
  shPc,          \* the call of k fn is at
  shLast,        \* the result of fn's latest call of k
  shKCalls,      \* calls of k made in the latest subscribe call
  shDelivered,   \* the values the continuation was invoked with in that call
  shResults,     \* what k returned to fn in that call
  shActionCalls, \* invocations of the subscription function
  shReturned,    \* what each subscribe call returned
  shFinishCalls, \* finish calls made on what each subscribe call returned
  shDisposed,    \* calls of the function or Activity each run of fn returned
  shError,       \* the error a finish call raised, or "none"
  \* one program run twice: with a plain function subscribed to a Wire or
  \* Behavior, and with a Continuation object that calls it in its place
  eqClass,       \* "Wire" or "Behavior"
  eqSubsF,       \* _subscribers in the run with the function
  eqSubsC,       \* _subscribers in the run with the Continuation
  eqActsF,       \* the Activities subscribe returned in the first run
  eqActsC,       \* the Activities subscribe returned in the second run
  eqDone,        \* _done, the same in both runs
  eqValue,       \* _value, the same in both runs
  eqOutF,        \* the calls made in the first run: <<function, value>>
  eqOutC,        \* the calls made in the second run
  eqOps,         \* API calls made
  \* two Wires, the second subscribed to the first as a continuation
  rlSubs,        \* _subscribers of each Wire: the checker "c" or the Wire "w2"
  rlDone,        \* _done of each Wire
  rlLog,         \* the calls of the checker: <<wire that made it, value>>
  rlNext,        \* the latest call of next: <<wire, value>>
  rlNexts,       \* calls of next made
  rlOps          \* API calls made

wireVars == <<subscribers, done, acts, stack, ops>>

parVars == <<parSources, parMode, parResult, parError, parPhase, subQueue, activities, srcSubs, timer,
             srcFinish, cleared, parFinishCalls, downstream,
             unstartedAtFinish, startedAtFinish, quietAtFinish>>

pruneVars == <<prSource, prTarget, prPhase, prBound, prCancelled, prTask, prPos,
               prEvents, prExtFinish, prError>>

siteVars == <<siSource, siResult, siPhase, siActivity, siCancelled, siTask,
              siPos, siLog, siFinish, siError, kpPromise, kpEarly, kpBeforeRun>>

behVars == <<build, value, lastNext, lateNext, stale, seen, raised>>

opsVars == <<opShape, opSource, opSub, opPos, opCnt, opActive, opOut,
             opFinish, opDisposed, opLate>>

shiftVars == <<shFn, shCont, shObserver, shPhase, shPc, shLast, shKCalls,
               shDelivered, shResults, shActionCalls, shReturned,
               shFinishCalls, shDisposed, shError>>

eqVars == <<eqClass, eqSubsF, eqSubsC, eqActsF, eqActsC, eqDone, eqValue,
            eqOutF, eqOutC, eqOps>>

relayVars == <<rlSubs, rlDone, rlLog, rlNext, rlNexts, rlOps>>

vars == <<wireVars, parVars, pruneVars, siteVars, behVars, opsVars, shiftVars,
          eqVars, relayVars>>

-----------------------------------------------------------------------------
(* Bounds of the model.                                                    *)

MaxOps == 6           \* API calls (subscribe, next, finish) in one run
MaxDepth == 2         \* nested Wire.next calls
MaxValue == 2         \* values are 1..MaxValue
MaxSources == 3       \* sources handed to par
MaxParFinish == 2     \* finish calls the caller makes on par's Activity
MaxLen == 3           \* values a source of prune emits
MaxPruneFinish == 1   \* finish calls the caller makes on prune's Activity
MaxSiteFinish == 2    \* finish calls made on the Activity of pure, each or keep
MaxBehOps == 4        \* API calls made on a Behavior in one run
MaxThrows == 1        \* errors continuations raise in one run
MaxOpLen == 2         \* values the source of a pipeline emits
MaxInner == 2         \* values an inner stream handed to join emits
MaxOpFinish == 2      \* finish calls made on the Activity of one pipeline
MaxCalls == 2         \* calls of k the function handed to shift makes
MaxSubs == 2          \* subscribe calls made on one observable of shift
MaxShiftFinish == 2   \* finish calls made on what one subscribe call returned
MaxEqOps == 5         \* API calls made in each of the two compared runs
MaxRelayOps == 5      \* API calls made on the two Wires

Values == 1 .. MaxValue

\* Continuation objects the caller owns, and plain unary functions.
ContObjects == {"c1", "c2"}
ContFunctions == {"f1"}
Inputs == ContObjects \cup ContFunctions

-----------------------------------------------------------------------------
(* Observable.subscribe                                                    *)

\* The observer handed to _action: the object itself, or a fresh wrapper
\* object { next(v) { return observer(v) } } around a plain function.  The
\* wrapper is a new object at every call; n tells the calls apart.
WrapObserver(input, n) ==
  IF input \in ContFunctions
    THEN [id |-> input, wrap |-> n]
    ELSE [id |-> input, wrap |-> 0]

\* The Wire's _action: pushes the observer and returns a disposer unless the
\* wire is done, in which case it returns undefined.
WireActionReturn(isDone) == IF isDone THEN "undefined" ELSE "function"

\* A mutant of the Wire's _action: pushes the observer also when done.
WireActionPushAlways(subs, isDone, observer) == Append(subs, observer)

WireActionPush(subs, isDone, observer) ==
  IF isDone THEN subs ELSE Append(subs, observer)

\* The normalisation of _action's return value into an Activity.
\*   !finish               -> { finish() { return; } }
\*   typeof finish = fn    -> { finish }
\*   otherwise             -> finish
Normalize(ret) ==
  CASE ret = "undefined" -> "noop"
    [] ret = "function"  -> "disposer"
    [] OTHER             -> ret

\* finish can be called on what subscribe returned: on the no-op Activity, on
\* a wrapped disposer and on an Activity, not on any other value, which
\* subscribe returns as it is.
Finishable(kind) == kind \in {"noop", "disposer", "activity"}

-----------------------------------------------------------------------------
(* Wire                                                                    *)

RECURSIVE FirstIndex(_, _, _)
\* The first index >= i at which observer o occurs in s, or 0.
FirstIndex(s, o, i) ==
  IF i > Len(s) THEN 0
  ELSE IF s[i] = o THEN i
  ELSE FirstIndex(s, o, i + 1)

\* A mutant of splice(index, 1): drops the last entry.
RemoveLast(s, i) == SubSeq(s, 1, Len(s) - 1)

\* this._subscribers.splice(index, 1)
RemoveAt(s, i) == SubSeq(s, 1, i - 1) \o SubSeq(s, i + 1, Len(s))

\* A mutant of the disposer: removes every occurrence of the observer.
UnsubscribeAll(subs, observer) == SelectSeq(subs, LAMBDA x : x # observer)

\* The disposer Wire.subscribe returns: splices the first entry identical to
\* the observer out of _subscribers, if there is one.
Unsubscribe(subs, observer) ==
  LET i == FirstIndex(subs, observer, 1)
  IN IF i = 0 THEN subs ELSE RemoveAt(subs, i)

\* A mutant of Wire.next: iterates the live collection.
IterTargetLive(frame) == subscribers

\* What Wire.next iterates over: this._subscribers.slice(), the copy taken
\* when the call started.
IterTarget(frame) == frame.snap

Top == stack[Len(stack)]

\* The caller of an API operation is the outside world or a running handler.
CallerCanAct == IF stack = <<>> THEN TRUE ELSE Top.running

Count(s, o) == Cardinality({i \in 1 .. Len(s) : s[i] = o})

\* The state of a program that has made no Wire.
WireIdle ==
  /\ subscribers = <<>>
  /\ done = FALSE
  /\ acts = <<>>
  /\ stack = <<>>
  /\ ops = 0

\* The state of a program that has made no par.
ParIdle ==
  /\ parSources = <<>>
  /\ parMode = "plain"
  /\ parResult = "undefined"
  /\ parError = "none"
  /\ parPhase = "new"
  /\ subQueue = <<>>
  /\ activities = <<>>
  /\ srcSubs = <<>>
  /\ timer = <<>>
  /\ srcFinish = <<>>
  /\ cleared = <<>>
  /\ parFinishCalls = 0
  /\ downstream = <<>>
  /\ unstartedAtFinish = {}
  /\ startedAtFinish = {}
  /\ quietAtFinish = {}

\* The state of a program that has made no prune.
PruneIdle ==
  /\ prSource = [kind |-> "pure", values |-> <<>>]
  /\ prTarget = "es2015"
  /\ prPhase = "new"
  /\ prBound = FALSE
  /\ prCancelled = FALSE
  /\ prTask = "none"
  /\ prPos = 0
  /\ prEvents = <<>>
  /\ prExtFinish = 0
  /\ prError = "none"

\* The state of a program that has made no pure, each or keep.
SiteIdle ==
  /\ siSource = [kind |-> "pure", values |-> <<>>]
  /\ siResult = "undefined"
  /\ siPhase = "new"
  /\ siActivity = "none"
  /\ siCancelled = FALSE
  /\ siTask = "none"
  /\ siPos = 0
  /\ siLog = <<>>
  /\ siFinish = 0
  /\ siError = "none"
  /\ kpPromise = "pending"
  /\ kpEarly = FALSE
  /\ kpBeforeRun = FALSE

\* The state of a program that has made no observable with shift.
ShiftIdle ==
  /\ shFn = [calls |-> <<>>, ret |-> "undefined"]
  /\ shCont = "void"
  /\ shObserver = "object"
  /\ shPhase = "idle"
  /\ shPc = 1
  /\ shLast = 0
  /\ shKCalls = 0
  /\ shDelivered = <<>>
  /\ shResults = <<>>
  /\ shActionCalls = 0
  /\ shReturned = <<>>
  /\ shFinishCalls = <<>>
  /\ shDisposed = <<>>
  /\ shError = "none"

\* The state of a program that compares no two runs.
EqIdle ==
  /\ eqClass = "Wire"
  /\ eqSubsF = <<>>
  /\ eqSubsC = <<>>
  /\ eqActsF = <<>>
  /\ eqActsC = <<>>
  /\ eqDone = FALSE
  /\ eqValue = 0
  /\ eqOutF = <<>>
  /\ eqOutC = <<>>
  /\ eqOps = 0

\* The state of a program that has made no pair of Wires.
RelayIdle ==
  /\ rlSubs = <<>>
  /\ rlDone = <<>>
  /\ rlLog = <<>>
  /\ rlNext = <<0, 0>>
  /\ rlNexts = 0
  /\ rlOps = 0

\* The state of a program that has made no pipeline.
OpsIdle ==
  /\ opShape = [name |-> "none"]
  /\ opSource = <<>>
  /\ opSub = {}
  /\ opPos = <<>>
  /\ opCnt = <<>>
  /\ opActive = <<>>
  /\ opOut = <<>>
  /\ opFinish = <<>>
  /\ opDisposed = <<>>
  /\ opLate = <<>>

\* The state of a program that has made no Behavior.
BehIdle ==
  /\ build = "Behavior"
  /\ value = 0
  /\ lastNext = 0
  /\ lateNext = FALSE
  /\ stale = {}
  /\ seen = <<>>
  /\ raised = 0

InitWire ==
  /\ OpsIdle
  /\ ShiftIdle
  /\ EqIdle
  /\ RelayIdle
  /\ ParIdle
  /\ PruneIdle
  /\ SiteIdle
  /\ BehIdle
  /\ subscribers = <<>>
  /\ done = FALSE
  /\ acts = <<>>
  /\ stack = <<>>
  /\ ops = 0

\* wire.subscribe(input)
WireSubscribe(input) ==
  /\ CallerCanAct
  /\ ops < MaxOps
  /\ ops' = ops + 1
  /\ LET observer == WrapObserver(input, Len(acts) + 1)
         kind == Normalize(WireActionReturn(done))
     IN /\ subscribers' = WireActionPush(subscribers, done, observer)
        /\ acts' = Append(acts, [obs |-> observer, kind |-> kind, calls |-> 0])
  /\ UNCHANGED <<done, stack>>
  /\ UNCHANGED <<parVars, pruneVars, siteVars, behVars, opsVars, shiftVars, eqVars, relayVars>>

\* acts[a].finish()
ActivityFinish(a) ==
  /\ CallerCanAct
  /\ a \in 1 .. Len(acts)
  /\ ops < MaxOps
  /\ ops' = ops + 1
  /\ subscribers' = IF acts[a].kind = "disposer"
                      THEN Unsubscribe(subscribers, acts[a].obs)
                      ELSE subscribers
  /\ acts' = [acts EXCEPT ![a].calls = @ + 1]
  /\ UNCHANGED <<done, stack>>
  /\ UNCHANGED <<parVars, pruneVars, siteVars, behVars, opsVars, shiftVars, eqVars, relayVars>>

\* wire.finish()
WireFinish ==
  /\ CallerCanAct
  /\ ops < MaxOps
  /\ ops' = ops + 1
  /\ subscribers' = <<>>
  /\ done' = TRUE
  /\ UNCHANGED <<acts, stack>>
  /\ UNCHANGED <<parVars, pruneVars, siteVars, behVars, opsVars, shiftVars, eqVars, relayVars>>

\* wire.next(v): returns at once when done, otherwise starts the forEach over
\* the copy of the collection.
WireNext(v) ==
  /\ CallerCanAct
  /\ ops < MaxOps
  /\ Len(stack) < MaxDepth
  /\ ops' = ops + 1
  /\ IF done
       THEN UNCHANGED stack
       ELSE stack' = Append(stack,
              [value |-> v, start |-> subscribers, snap |-> subscribers,
               idx |-> 1, running |-> FALSE, delivered |-> <<>>])
  /\ UNCHANGED <<subscribers, done, acts>>
  /\ UNCHANGED <<parVars, pruneVars, siteVars, behVars, opsVars, shiftVars, eqVars, relayVars>>

\* The forEach of the top frame has visited every element.
ForEachOver(frame) == ~frame.running /\ frame.idx > Len(IterTarget(frame))

\* forEach invokes cont.next(value) on the next element.
Invoke ==
  /\ stack # <<>>
  /\ ~Top.running
  /\ Top.idx <= Len(IterTarget(Top))
  /\ stack' = [stack EXCEPT ![Len(stack)] =
       [@ EXCEPT !.running = TRUE,
                 !.delivered = Append(@, <<IterTarget(Top)[Top.idx], Top.value>>)]]
  /\ UNCHANGED <<subscribers, done, acts, ops>>
  /\ UNCHANGED <<parVars, pruneVars, siteVars, behVars, opsVars, shiftVars, eqVars, relayVars>>

\* The running handler returns and forEach moves on.
Return ==
  /\ stack # <<>>
  /\ Top.running
  /\ stack' = [stack EXCEPT ![Len(stack)] =
       [@ EXCEPT !.running = FALSE, !.idx = @ + 1]]
  /\ UNCHANGED <<subscribers, done, acts, ops>>
  /\ UNCHANGED <<parVars, pruneVars, siteVars, behVars, opsVars, shiftVars, eqVars, relayVars>>

\* forEach is over and Wire.next returns to its caller.
NextReturn ==
  /\ stack # <<>>
  /\ ForEachOver(Top)
  /\ stack' = SubSeq(stack, 1, Len(stack) - 1)
  /\ UNCHANGED <<subscribers, done, acts, ops>>
  /\ UNCHANGED <<parVars, pruneVars, siteVars, behVars, opsVars, shiftVars, eqVars, relayVars>>

-----------------------------------------------------------------------------
(* Properties of the Wire                                                  *)

\* A step in which forEach invokes a continuation.
InvokeStep ==
  /\ stack # <<>>
  /\ Len(stack') = Len(stack)
  /\ ~Top.running
  /\ stack'[Len(stack)].running

\* A step that is a finish call on Activity a.
ActivityFinishStep(a) ==
  /\ a <= Len(acts')
  /\ acts'[a].calls = acts[a].calls + 1

\* How often observer o was invoked by a broadcast.
Invocations(delivered, o) ==
  Cardinality({j \in 1 .. Len(delivered) : delivered[j][1] = o})

Observers == {acts[a].obs : a \in 1 .. Len(acts)}

\* C1 (as claimed): no continuation is invoked by the Wire once finish has
\* been called, also when finish is called by a continuation during a
\* broadcast; and every call made after finish, a second finish included,
\* leaves the wire done with an empty subscriber collection.
C1_NoInvokeAfterFinish ==
  [][/\ InvokeStep => ~done
     /\ done => (done' /\ subscribers' = subscribers)]_vars

\* C7: a finish call on an Activity whose continuation occurs k >= 1 times in
\* the subscriber collection removes exactly one occurrence of it and leaves
\* the other entries, and their order, untouched; and a broadcast invokes
\* every continuation once per occurrence in the collection it started from.
C7_FinishRemovesOne ==
  [][/\ \A a \in 1 .. Len(acts) :
          (ActivityFinishStep(a) /\ Count(subscribers, acts[a].obs) >= 1) =>
            LET c == acts[a].obs
            IN /\ Count(subscribers', c) = Count(subscribers, c) - 1
               /\ Len(subscribers') = Len(subscribers) - 1
               /\ SelectSeq(subscribers', LAMBDA x : x # c)
                    = SelectSeq(subscribers, LAMBDA x : x # c)
     /\ Len(stack') < Len(stack) =>
          \A o \in Observers : Invocations(Top.delivered, o) = Count(Top.start, o)
    ]_vars

\* C7 witness: c was subscribed through two Activities, one of them was
\* finished once, one occurrence of c and another continuation remain, and a
\* following broadcast has invoked c exactly once.
C7_Witness ==
  /\ stack # <<>>
  /\ ForEachOver(Top)
  /\ Top.start = subscribers
  /\ \E a, b \in 1 .. Len(acts) :
       /\ a # b
       /\ acts[a].obs = acts[b].obs
       /\ acts[a].calls = 1
       /\ acts[b].calls = 0
       /\ Count(subscribers, acts[a].obs) = 1
       /\ Invocations(Top.delivered, acts[a].obs) = 1
       /\ \E o \in Observers : o # acts[a].obs /\ Count(subscribers, o) = 1

\* C8 (as claimed): a second finish call on the same Activity removes no
\* entry from the subscriber collection.
C8_SecondFinishRemovesNothing ==
  [][\A a \in 1 .. Len(acts) :
       (ActivityFinishStep(a) /\ acts[a].calls >= 1) =>
         subscribers' = subscribers]_vars

\* C10: at every point of a Wire.next(v) call the continuations invoked so far
\* are the first entries of the subscriber collection as it was when the call
\* started, in insertion order, each invoked with v; and when the call ends
\* all of them have been invoked, whatever the handlers subscribed or
\* unsubscribed meanwhile.
C10_SnapshotDelivery ==
  \A i \in 1 .. Len(stack) :
    LET f == stack[i]
        k == IF f.running THEN f.idx ELSE f.idx - 1
    IN /\ k <= Len(f.start)
       /\ f.delivered = [j \in 1 .. k |-> <<f.start[j], f.value>>]
       /\ ForEachOver(f) => k = Len(f.start)

\* C10 witness: a broadcast over two or more continuations has ended; during
\* it a handler subscribed a continuation that was not invoked, and a handler
\* unsubscribed one that was.
C10_Witness ==
  /\ Len(stack) = 1
  /\ ForEachOver(Top)
  /\ ~done
  /\ Len(Top.start) >= 2
  /\ \E o \in Observers : Count(subscribers, o) > Count(Top.start, o)
                            /\ Invocations(Top.delivered, o) = Count(Top.start, o)
  /\ \E o \in Observers : Count(subscribers, o) < Count(Top.start, o)
                            /\ Invocations(Top.delivered, o) = Count(Top.start, o)

\* C11: done never goes from true back to false; while done the subscriber
\* collection is empty; and once done a subscribe call adds no entry and
\* returns the no-op Activity, a finish call on that Activity changes nothing,
\* and a next call starts no broadcast, so the continuation is not invoked.
C11_DoneIsFinal ==
  /\ [](done => subscribers = <<>>)
  /\ [][done =>
          /\ done'
          /\ subscribers' = <<>>
          /\ Len(acts') > Len(acts) => acts'[Len(acts')].kind = "noop"
          /\ \A a \in 1 .. Len(acts) :
               (ActivityFinishStep(a) /\ acts[a].kind = "noop") =>
                 subscribers' = subscribers
          /\ Len(stack') <= Len(stack)
       ]_vars

\* C11 witness: the wire was finished while it had no broadcast in progress,
\* then a continuation was subscribed and the Activity returned for it was
\* finished; the collection is empty.
C11_Witness ==
  /\ done
  /\ stack = <<>>
  /\ subscribers = <<>>
  /\ Len(acts) = 2
  /\ acts[1].kind = "disposer"
  /\ acts[2].kind = "noop"
  /\ acts[2].calls = 1

\* Two Activities were returned, for two distinct continuations; a was
\* finished and b was not, and the wire is not done.
OneOfTwoFinished(a, b) ==
  /\ Len(acts) = 2
  /\ {a, b} = {1, 2}
  /\ acts[a].obs # acts[b].obs
  /\ acts[a].kind = "disposer"
  /\ acts[b].kind = "disposer"
  /\ acts[a].calls >= 1
  /\ acts[b].calls = 0
  /\ ~done

\* C12: after two distinct continuations were subscribed and the Activity of
\* one of them was finished, the collection holds only the other, a next(v)
\* call starts a broadcast of v over exactly the other, and that broadcast
\* ends having invoked the other exactly once, with v.
C12_OnlyTheOtherIsInvoked ==
  [][\A a, b \in 1 .. Len(acts) :
       OneOfTwoFinished(a, b) =>
         /\ subscribers = <<acts[b].obs>>
         /\ Len(stack') > Len(stack) =>
              /\ IterTarget(stack'[Len(stack')]) = <<acts[b].obs>>
              /\ stack'[Len(stack')].start = <<acts[b].obs>>
         /\ (Len(stack') < Len(stack) /\ Top.start = <<acts[b].obs>>) =>
              Top.delivered = <<<<acts[b].obs, Top.value>>>>
    ]_vars

\* C12 witness: of two continuations the first subscribed was finished, and a
\* next call made after that has ended having invoked the second once.
C12_Witness ==
  /\ OneOfTwoFinished(1, 2)
  /\ Len(stack) = 1
  /\ ForEachOver(Top)
  /\ ops = 4
  /\ Top.start = <<acts[2].obs>>
  /\ Top.delivered = <<<<acts[2].obs, Top.value>>>>

NextWire ==
  \/ \E input \in Inputs : WireSubscribe(input)
  \/ \E a \in 1 .. MaxOps : ActivityFinish(a)
  \/ WireFinish
  \/ \E v \in Values : WireNext(v)
  \/ Invoke
  \/ Return
  \/ NextReturn

SpecWire == InitWire /\ [][NextWire]_vars

-----------------------------------------------------------------------------
(* par over the event loop                                                 *)
(*                                                                         *)
(* par(observables).subscribe(observer) schedules one setTimeout(.., 0)    *)
(* per source and returns a disposer closing over the activities array.    *)
(* Timers of equal delay run in the order they were set, so the deferred   *)
(* subscriptions form a queue.  The sources are pure(v), which emits       *)
(* inside its subscribe call and has a no-op Activity, and the test        *)
(* suite's timeoutMS(ms, v), which sets a timer and returns a disposer     *)
(* clearing it.  The subscriber is a plain continuation, or the callback   *)
(* prune() subscribes, which finishes the source's Activity (here par's)   *)
(* and then forwards the value downstream.                                 *)

SourceSet == [kind : {"pure", "timer"}, value : Values]

SourceLists == UNION {[1 .. n -> SourceSet] : n \in 1 .. MaxSources}

\* What the downstream continuation returns: nothing, or a value that is
\* truthy and neither a function nor an Activity (a number, say).
Results == {"undefined", "number"}

Range(s) == {s[j] : j \in 1 .. Len(s)}

Occurs(s, i) == Cardinality({j \in 1 .. Len(s) : s[j] = i})

\* Source i has emitted a value that reached the downstream continuation.
Emitted(i) == \E j \in 1 .. Len(downstream) : downstream[j][1] = i

Deliveries(i) == Cardinality({j \in 1 .. Len(downstream) : downstream[j][1] = i})

\* pure's subscription function is (observer) => observer.next(value): it
\* returns what the continuation returned.
PureActionReturn(result) == result

\* What source.subscribe(observer) returns for source i: timeoutMS returns a
\* disposer; pure returns whatever its continuation returned, normalised.
SourceActivity(i) ==
  IF parSources[i].kind = "timer"
    THEN Normalize("function")
    ELSE Normalize(PureActionReturn(parResult))

\* A mutant of par's subscription function: only the first source is scheduled.
ParTimersFirstOnly(n) == IF n > 0 THEN <<1>> ELSE <<>>

\* A mutant of par's subscription function: the last source is scheduled
\* first.
ParTimersReversed(n) == [i \in 1 .. n |-> n + 1 - i]

\* for (const observable of observables) setTimeout(() => ..., 0): the
\* callbacks par schedules, in the order it sets them.
ParTimers(n) == [i \in 1 .. n |-> i]

\* activities.slice(): the Activities par's disposer walks.
ToFinish(as) == as

RECURSIVE CallsMade(_)
\* forEach((activity) => void activity.finish()): the Activities finish is
\* called on, the walk ending at the first call that raises.
CallsMade(as) ==
  IF as = <<>> THEN <<>>
  ELSE IF ~Finishable(SourceActivity(Head(as))) THEN <<Head(as)>>
  ELSE <<Head(as)>> \o CallsMade(Tail(as))

\* A finish call of the walk raises a TypeError.
FinishThrows(as) == \E j \in 1 .. Len(as) : ~Finishable(SourceActivity(as[j]))

\* clearTimeout(timer) on every timer source among the Activities finished.
TimerAfterFinish(t, as) ==
  [i \in DOMAIN t |->
     IF Occurs(as, i) > 0 /\ t[i] = "pending" THEN "cleared" ELSE t[i]]

InitPar ==
  /\ OpsIdle
  /\ ShiftIdle
  /\ EqIdle
  /\ RelayIdle
  /\ WireIdle
  /\ PruneIdle
  /\ SiteIdle
  /\ BehIdle
  /\ parSources \in SourceLists
  /\ parMode \in {"plain", "prune"}
  /\ parResult \in Results
  /\ parError = "none"
  /\ parPhase = "new"
  /\ subQueue = <<>>
  /\ activities = <<>>
  /\ srcSubs = [i \in DOMAIN parSources |-> 0]
  /\ timer = [i \in DOMAIN parSources |-> "none"]
  /\ srcFinish = [i \in DOMAIN parSources |-> 0]
  /\ cleared = [i \in DOMAIN parSources |-> 0]
  /\ parFinishCalls = 0
  /\ downstream = <<>>
  /\ unstartedAtFinish = {}
  /\ startedAtFinish = {}
  /\ quietAtFinish = {}

\* One run of par's disposer, called while source `emitter` (0: none) is
\* emitting, timers being t and the pending subscriptions queue: finish is
\* called on the Activities pushed so far, in order, up to the first call that
\* raises.  A timer source's Activity runs its disposer at every call, a pure
\* source's Activity is the no-op one or the continuation's result.
FinishCall(t, queue, emitter) ==
  LET called == CallsMade(ToFinish(activities))
      ok == SelectSeq(called, LAMBDA i : Finishable(SourceActivity(i)))
  IN /\ timer' = TimerAfterFinish(t, ok)
     /\ srcFinish' = [i \in DOMAIN srcFinish |-> srcFinish[i] + Occurs(called, i)]
     /\ cleared' = [i \in DOMAIN cleared |->
                      cleared[i] + (IF parSources[i].kind = "timer"
                                      THEN Occurs(ok, i) ELSE 0)]
     /\ unstartedAtFinish' = unstartedAtFinish \cup Range(queue)
     /\ startedAtFinish' = startedAtFinish \cup Range(activities)
     /\ quietAtFinish' = quietAtFinish \cup
          {j \in Range(activities) : j # emitter /\ ~Emitted(j)}

NoFinishCall(t) ==
  /\ timer' = t
  /\ UNCHANGED <<srcFinish, cleared, unstartedAtFinish, startedAtFinish,
                 quietAtFinish>>

\* prune's callback raises: its activity.finish() does.
EmitThrows == parMode = "prune" /\ FinishThrows(ToFinish(activities))

\* Source i calls observer.next(v): prune's callback first finishes par's
\* Activity; then the value reaches the downstream continuation, unless the
\* finish call raised.
Emit(i, v, t, queue) ==
  /\ IF parMode = "prune" THEN FinishCall(t, queue, i) ELSE NoFinishCall(t)
  /\ downstream' = IF EmitThrows THEN downstream ELSE Append(downstream, <<i, v>>)

\* An error that leaves a timer callback is uncaught: the host reports it and
\* goes on, or ends the program.
Uncaught ==
  /\ parError' = "TypeError"
  /\ parPhase' \in {"subscribed", "crashed"}

\* par(sources).subscribe(observer)
ParSubscribe ==
  /\ parPhase = "new"
  /\ parPhase' = "subscribed"
  /\ subQueue' = ParTimers(Len(parSources))
  /\ UNCHANGED <<parSources, parMode, parResult, parError, activities, srcSubs,
                 timer, srcFinish, cleared, parFinishCalls, downstream,
                 unstartedAtFinish, startedAtFinish, quietAtFinish>>
  /\ UNCHANGED <<wireVars, pruneVars, siteVars, behVars, opsVars, shiftVars, eqVars, relayVars>>

\* The oldest pending setTimeout callback of par runs: it subscribes the
\* observer to its source and then pushes the Activity.
RunSub ==
  /\ parPhase = "subscribed"
  /\ subQueue # <<>>
  /\ LET i == Head(subQueue)
     IN /\ subQueue' = Tail(subQueue)
        /\ srcSubs' = [srcSubs EXCEPT ![i] = @ + 1]
        /\ IF parSources[i].kind = "pure"
             THEN /\ Emit(i, parSources[i].value, timer, Tail(subQueue))
                  /\ IF EmitThrows
                       THEN Uncaught /\ UNCHANGED activities
                       ELSE /\ activities' = Append(activities, i)
                            /\ UNCHANGED <<parError, parPhase>>
             ELSE /\ NoFinishCall([timer EXCEPT ![i] = "pending"])
                  /\ activities' = Append(activities, i)
                  /\ UNCHANGED <<downstream, parError, parPhase>>
  /\ UNCHANGED <<parSources, parMode, parResult, parFinishCalls>>
  /\ UNCHANGED <<wireVars, pruneVars, siteVars, behVars, opsVars, shiftVars, eqVars, relayVars>>

\* The timer of timer source i fires and the source emits its value.
Fire(i) ==
  /\ parPhase = "subscribed"
  /\ i \in DOMAIN timer
  /\ timer[i] = "pending"
  /\ Emit(i, parSources[i].value, [timer EXCEPT ![i] = "fired"], subQueue)
  /\ IF EmitThrows THEN Uncaught ELSE UNCHANGED <<parError, parPhase>>
  /\ UNCHANGED <<parSources, parMode, parResult, subQueue, activities, srcSubs,
                 parFinishCalls>>
  /\ UNCHANGED <<wireVars, pruneVars, siteVars, behVars, opsVars, shiftVars, eqVars, relayVars>>

\* The caller calls finish on the Activity par's subscribe returned; an error
\* raised by the walk reaches the caller.
ParFinish ==
  /\ parPhase = "subscribed"
  /\ parFinishCalls < MaxParFinish
  /\ parFinishCalls' = parFinishCalls + 1
  /\ FinishCall(timer, subQueue, 0)
  /\ parError' = IF FinishThrows(ToFinish(activities)) THEN "TypeError" ELSE parError
  /\ UNCHANGED <<parSources, parMode, parResult, parPhase, subQueue, activities,
                 srcSubs, downstream>>
  /\ UNCHANGED <<wireVars, pruneVars, siteVars, behVars, opsVars, shiftVars, eqVars, relayVars>>

-----------------------------------------------------------------------------
(* Properties of par, and of prune over par                                *)

\* C3 (as claimed): one subscription to prune()(source) invokes the
\* downstream continuation at most once, here for source = par(sources).
C3_PruneAtMostOnce ==
  parMode = "prune" => Len(downstream) <= 1

\* C4 (as claimed): a source whose deferred subscription had not run when
\* finish was called on par's Activity is never subscribed afterwards and
\* delivers nothing.
C4_UnstartedNeverStart ==
  \A i \in unstartedAtFinish : srcSubs[i] = 0 /\ ~Emitted(i)

\* C5 (as claimed): once finish has been called on par's Activity, finish has
\* been called on the Activity of every source whose subscription had run by
\* then, and a source that was started and had not emitted by then has its
\* timer cleared and never delivers a value.
C5_FinishCancelsStarted ==
  /\ \A j \in startedAtFinish : srcFinish[j] >= 1
  /\ \A j \in quietAtFinish : ~Emitted(j) /\ timer[j] = "cleared"

AllDelivered ==
  \A i \in DOMAIN parSources :
    /\ srcSubs[i] = 1
    /\ Deliveries(i) = 1
    /\ \E j \in 1 .. Len(downstream) : downstream[j] = <<i, parSources[i].value>>

\* C6: one subscription to par(sources) that is never cancelled subscribes no
\* source inside par's own subscribe call, subscribes no source twice,
\* delivers no value twice, and eventually has subscribed every source once
\* and delivered every value of every source once.
C6_ParDeliversAll ==
  /\ [](\A i \in DOMAIN parSources : srcSubs[i] <= 1 /\ Deliveries(i) <= 1)
  /\ [][parPhase # parPhase' => (srcSubs' = srcSubs /\ downstream' = downstream)]_vars
  /\ (parPhase = "subscribed") ~> AllDelivered

\* C6 witness: par of two pure sources and a timer source has delivered all
\* three values.
C6_Witness ==
  /\ Len(parSources) = 3
  /\ parSources[1].kind = "pure"
  /\ parSources[2].kind = "pure"
  /\ parSources[3].kind = "timer"
  /\ AllDelivered
  /\ Len(downstream) = 3

\* C9 (as claimed): however often finish is called on an Activity made from a
\* plain disposer, the disposer's effect is performed at most once; here the
\* disposer of a timer source, reached through par's disposer.
C9_DisposerRunsOnce ==
  \A i \in DOMAIN cleared : cleared[i] <= 1

\* C35: a step subscribes at most one source, and no source before all the
\* sources listed before it, none of them inside par's own subscribe call; so
\* of two sources that emit inside subscribe the one listed first delivers
\* first.
C35_ParSubscribesInListOrder ==
  /\ [][/\ \A i, j \in DOMAIN parSources :
             (srcSubs'[i] > srcSubs[i] /\ srcSubs'[j] > srcSubs[j]) => i = j
        /\ \A i \in DOMAIN parSources :
             srcSubs'[i] > srcSubs[i] =>
               /\ parPhase = "subscribed"
               /\ \A j \in 1 .. i - 1 : srcSubs[j] >= 1]_vars
  /\ [](\A p, q \in 1 .. Len(downstream) :
          (/\ parSources[downstream[p][1]].kind = "pure"
           /\ parSources[downstream[q][1]].kind = "pure"
           /\ downstream[p][1] < downstream[q][1]) => p < q)

\* C35 witness: par([pure(a), pure(b)]) with a # b, subscribed by a plain
\* continuation, has delivered a and then b.
C35_Witness ==
  /\ parMode = "plain"
  /\ Len(parSources) = 2
  /\ parSources[1].kind = "pure"
  /\ parSources[2].kind = "pure"
  /\ parSources[1].value # parSources[2].value
  /\ downstream = <<<<1, parSources[1].value>>, <<2, parSources[2].value>>>>

NextPar ==
  \/ ParSubscribe
  \/ RunSub
  \/ \E i \in 1 .. MaxSources : Fire(i)
  \/ ParFinish

SpecPar == InitPar /\ [][NextPar]_vars

\* One subscription by a plain continuation that is never cancelled; the
\* event loop runs every callback that is due.
InitParLive == InitPar /\ parMode = "plain"

NextParLive ==
  \/ ParSubscribe
  \/ RunSub
  \/ \E i \in 1 .. MaxSources : Fire(i)

SpecParLive ==
  /\ InitParLive
  /\ [][NextParLive]_vars
  /\ WF_vars(RunSub)
  /\ WF_vars(\E i \in 1 .. MaxSources : Fire(i))

-----------------------------------------------------------------------------
(* prune                                                                   *)
(*                                                                         *)
(*   shift((observer) => {                                                 *)
(*     const activity = source.subscribe((value) => {                      *)
(*       activity.finish();                                                *)
(*       return observer(value);                                           *)
(*     });                                                                 *)
(*     return activity;                                                    *)
(*   })                                                                    *)
(*                                                                         *)
(* The callback reads the binding `activity`, which is initialised only    *)
(* when source.subscribe has returned.  A source that emits inside its     *)
(* subscribe call runs the callback before that: compiled to ES2015 or     *)
(* later the read of the const raises a ReferenceError, compiled to ES5    *)
(* the var is undefined and .finish() on it raises a TypeError.  The       *)
(* sources are pure(v) and shift(k => { k(v1); k(v2); ...; return d }),    *)
(* which emit inside subscribe, and each(values), which emits on a later   *)
(* turn and stops when its cancelled flag is set.                          *)

SeqsUpTo(n) == UNION {[1 .. m -> Values] : m \in 0 .. n}

PruneSources ==
  {[kind |-> "pure", values |-> <<v>>] : v \in Values}
    \cup {[kind |-> k, values |-> vs] : k \in {"shift", "each"}, vs \in SeqsUpTo(MaxLen)}

Targets == {"es2015", "es5"}

\* What reading `activity` and calling finish on it raises before the
\* binding is initialised.
UnboundError(target) == IF target = "es5" THEN "TypeError" ELSE "ReferenceError"

\* A mutant of the sites: every site emits inside its subscribe call.
EmitsInSubscribeAlways(src) == src.values # <<>>

\* The source emits inside its subscribe call.
EmitsInSubscribe(src) == src.kind \in {"pure", "shift"} /\ src.values # <<>>

Delivered(events) == SelectSeq(events, LAMBDA e : e[1] = "deliver")

\* A mutant of prune's callback: it forwards the value and then finishes.
PruneCallbackForwardsFirst(v) == <<<<"deliver", v>>, <<"finish", 0>>>>

\* prune's callback: activity.finish(); return observer(value);
PruneCallback(v) == <<<<"finish", 0>>, <<"deliver", v>>>>

DeliveredValues(events) ==
  [j \in 1 .. Len(Delivered(events)) |-> Delivered(events)[j][2]]

InitPrune ==
  /\ OpsIdle
  /\ ShiftIdle
  /\ EqIdle
  /\ RelayIdle
  /\ WireIdle
  /\ ParIdle
  /\ SiteIdle
  /\ BehIdle
  /\ prSource \in PruneSources
  /\ prTarget \in Targets
  /\ prPhase = "new"
  /\ prBound = FALSE
  /\ prCancelled = FALSE
  /\ prTask = "none"
  /\ prPos = 0
  /\ prEvents = <<>>
  /\ prExtFinish = 0
  /\ prError = "none"

\* prune()(source).subscribe(c).  A source that emits inside subscribe runs
\* the callback while `activity` is unbound: the error leaves source.subscribe
\* and prune's subscribe, and nothing reaches c.  Otherwise the binding is
\* initialised and subscribe returns; each has scheduled its loop.
PruneSubscribe ==
  /\ prPhase = "new"
  /\ IF EmitsInSubscribe(prSource)
       THEN /\ prPhase' = "threw"
            /\ prError' = UnboundError(prTarget)
            /\ UNCHANGED <<prBound, prTask>>
       ELSE /\ prPhase' = "returned"
            /\ prBound' = TRUE
            /\ prTask' = IF prSource.kind = "each" THEN "scheduled" ELSE "none"
            /\ UNCHANGED prError
  /\ UNCHANGED <<prSource, prTarget, prCancelled, prPos, prEvents, prExtFinish>>
  /\ UNCHANGED <<wireVars, parVars, siteVars, behVars, opsVars, shiftVars, eqVars, relayVars>>

\* The setTimeout callback of each starts its for loop.
EachStart ==
  /\ prTask = "scheduled"
  /\ prTask' = "running"
  /\ prPos' = 1
  /\ UNCHANGED <<prSource, prTarget, prPhase, prBound, prCancelled, prEvents,
                 prExtFinish, prError>>
  /\ UNCHANGED <<wireVars, parVars, siteVars, behVars, opsVars, shiftVars, eqVars, relayVars>>

\* One turn of each's loop: it ends after the last element or when the flag
\* is set; otherwise observer.next(value) runs prune's callback, which calls
\* activity.finish() (each's disposer sets the flag) and then the downstream.
EachStep ==
  /\ prTask = "running"
  /\ IF prPos > Len(prSource.values) \/ prCancelled
       THEN /\ prTask' = "over"
            /\ UNCHANGED <<prPos, prCancelled, prEvents>>
       ELSE /\ prCancelled' = TRUE
            /\ prEvents' = prEvents \o PruneCallback(prSource.values[prPos])
            /\ prPos' = prPos + 1
            /\ UNCHANGED prTask
  /\ UNCHANGED <<prSource, prTarget, prPhase, prBound, prExtFinish, prError>>
  /\ UNCHANGED <<wireVars, parVars, siteVars, behVars, opsVars, shiftVars, eqVars, relayVars>>

\* The caller calls finish on the Activity prune's subscribe returned, which
\* is the source's Activity.
PruneFinish ==
  /\ prPhase = "returned"
  /\ prTask # "running"
  /\ prExtFinish < MaxPruneFinish
  /\ prExtFinish' = prExtFinish + 1
  /\ prCancelled' = (prCancelled \/ prSource.kind = "each")
  /\ prEvents' = Append(prEvents, <<"finish", 0>>)
  /\ UNCHANGED <<prSource, prTarget, prPhase, prBound, prTask, prPos, prError>>
  /\ UNCHANGED <<wireVars, parVars, siteVars, behVars, opsVars, shiftVars, eqVars, relayVars>>

\* C2 (as claimed): prune()(source) over a source that emits inside its
\* subscribe call raises no error and delivers exactly the first value.
C2_SyncPruneDeliversFirst ==
  (prPhase # "new" /\ EmitsInSubscribe(prSource)) =>
    (prError = "none" /\ DeliveredValues(prEvents) = <<prSource.values[1]>>)

\* C27: whenever the downstream continuation of prune()(source) is invoked
\* with a value, the call made just before it is the finish call on the
\* source's Activity; so on the first value the source's Activity is finished
\* before the value is forwarded.
C27_FinishBeforeForward ==
  \A j \in 1 .. Len(prEvents) :
    prEvents[j][1] = "deliver" => (j > 1 /\ prEvents[j - 1][1] = "finish")

\* C27 witness: each of two or more values under prune has run its loop; the
\* source's Activity was finished and then the first value was forwarded.
C27_Witness ==
  /\ prSource.kind = "each"
  /\ Len(prSource.values) >= 2
  /\ prTask = "over"
  /\ prExtFinish = 0
  /\ prEvents = <<<<"finish", 0>>, <<"deliver", prSource.values[1]>>>>

\* reset(observable): new Promise((resolve) => void pruned.subscribe(resolve)).
\* An error that leaves the executor rejects the promise; the first call of
\* resolve settles it.
ResetPromise ==
  IF prPhase = "threw" THEN <<"rejected", 0>>
  ELSE IF Delivered(prEvents) # <<>> THEN <<"resolved", Delivered(prEvents)[1][2]>>
  ELSE <<"pending", 0>>

\* The source has emitted its first value.
SourceEmitted ==
  \/ prPhase # "new" /\ EmitsInSubscribe(prSource)
  \/ prPos > 1

\* C28 (as claimed): the future reset(source) returns is never rejected, is
\* resolved with the first value of the source once the source has emitted
\* it, and stays unresolved when the source emits nothing.
C28_ResetResolvesWithFirst ==
  prExtFinish = 0 =>
    /\ ResetPromise[1] # "rejected"
    /\ SourceEmitted => ResetPromise = <<"resolved", prSource.values[1]>>
    /\ prSource.values = <<>> => ResetPromise = <<"pending", 0>>

NextPrune ==
  \/ PruneSubscribe
  \/ EachStart
  \/ EachStep
  \/ PruneFinish

SpecPrune == InitPrune /\ [][NextPrune]_vars

-----------------------------------------------------------------------------
(* pure, each and keep, subscribed once by a plain continuation            *)
(*                                                                         *)
(* pure(v) invokes the continuation inside subscribe and returns what the  *)
(* continuation returned.  each(S) sets a timer of delay 0 whose callback  *)
(* walks S, testing the cancelled flag before every element, and returns   *)
(* a disposer that sets the flag.  keep(promise) registers a then callback *)
(* that invokes the continuation unless the flag is set, and returns the   *)
(* same kind of disposer; the host runs the then callback on a later       *)
(* microtask, once the promise is resolved.  The caller may call finish    *)
(* between any two callbacks, and the continuation of each may call it     *)
(* while an element is being delivered to it.                              *)

SiteSources ==
  {[kind |-> k, values |-> <<v>>] : k \in {"pure", "keep"}, v \in Values}
    \cup {[kind |-> "each", values |-> vs] : vs \in SeqsUpTo(MaxLen)}

\* What the site's subscription function returns.
SiteActionReturn(src, result) ==
  IF src.kind = "pure" THEN PureActionReturn(result) ELSE "function"

\* A mutant of each's loop: it stops before the last element.
LoopEndsEarly(pos, vals, cancelled) == pos >= Len(vals) \/ cancelled

\* A mutant of each's loop: it does not test the flag.
LoopIgnoresFlag(pos, vals, cancelled) == pos > Len(vals)

\* for (const value of it) { if (cancelled) break; else ... }: the loop is
\* over after the last element or when the flag is set.
LoopEnds(pos, vals, cancelled) == pos > Len(vals) \/ cancelled

\* A mutant of keep's then callback: it does not test the flag.
KeepDeliversAlways(cancelled) == TRUE

\* if (!cancelled) observer.next(value)
KeepDelivers(cancelled) == ~cancelled

InitSite ==
  /\ OpsIdle
  /\ ShiftIdle
  /\ EqIdle
  /\ RelayIdle
  /\ WireIdle
  /\ ParIdle
  /\ PruneIdle
  /\ BehIdle
  /\ siSource \in SiteSources
  /\ siResult \in Results
  /\ siPhase = "new"
  /\ siActivity = "none"
  /\ siCancelled = FALSE
  /\ siTask = "none"
  /\ siPos = 0
  /\ siLog = <<>>
  /\ siFinish = 0
  /\ siError = "none"
  /\ kpPromise \in (IF siSource.kind = "keep" THEN {"pending", "resolved"}
                                            ELSE {"pending"})
  /\ kpEarly = FALSE
  /\ kpBeforeRun = FALSE

\* site.subscribe(c): pure invokes c before it returns; each sets its timer;
\* keep registers its then callback, which is queued at once when the promise
\* is resolved already.
SiteSubscribe ==
  /\ siPhase = "new"
  /\ siPhase' = "returned"
  /\ siLog' = IF EmitsInSubscribe(siSource)
                THEN [j \in 1 .. Len(siSource.values) |-> <<siSource.values[j], "sync">>]
                ELSE <<>>
  /\ siTask' = IF siSource.kind = "each"
                    \/ (siSource.kind = "keep" /\ kpPromise = "resolved")
                 THEN "scheduled" ELSE "none"
  /\ siActivity' = Normalize(SiteActionReturn(siSource, siResult))
  /\ UNCHANGED <<siSource, siResult, siCancelled, siPos, siFinish, siError,
                 kpPromise, kpEarly, kpBeforeRun>>
  /\ UNCHANGED <<wireVars, parVars, pruneVars, behVars, opsVars, shiftVars, eqVars, relayVars>>

\* The setTimeout callback of each starts its for loop.
SiteEachStart ==
  /\ siSource.kind = "each"
  /\ siTask = "scheduled"
  /\ siTask' = "running"
  /\ siPos' = 1
  /\ UNCHANGED <<siSource, siResult, siPhase, siActivity, siCancelled, siLog,
                 siFinish, siError, kpPromise, kpEarly, kpBeforeRun>>
  /\ UNCHANGED <<wireVars, parVars, pruneVars, behVars, opsVars, shiftVars, eqVars, relayVars>>

\* One turn of each's loop; fin: the continuation calls finish on the
\* Activity while the element is being delivered to it.
SiteEachStep(fin) ==
  /\ siSource.kind = "each"
  /\ siTask = "running"
  /\ IF LoopEnds(siPos, siSource.values, siCancelled)
       THEN /\ ~fin
            /\ siTask' = "over"
            /\ UNCHANGED <<siPos, siCancelled, siLog, siFinish>>
       ELSE /\ fin => siFinish < MaxSiteFinish
            /\ siLog' = Append(siLog, <<siSource.values[siPos], "task">>)
            /\ siPos' = siPos + 1
            /\ siCancelled' = (siCancelled \/ fin)
            /\ siFinish' = siFinish + (IF fin THEN 1 ELSE 0)
            /\ UNCHANGED siTask
  /\ UNCHANGED <<siSource, siResult, siPhase, siActivity, siError, kpPromise,
                 kpEarly, kpBeforeRun>>
  /\ UNCHANGED <<wireVars, parVars, pruneVars, behVars, opsVars, shiftVars, eqVars, relayVars>>

\* The promise handed to keep resolves; a then callback registered already
\* is queued.
KeepResolve ==
  /\ siSource.kind = "keep"
  /\ kpPromise = "pending"
  /\ kpPromise' = "resolved"
  /\ siTask' = IF siPhase = "returned" THEN "scheduled" ELSE siTask
  /\ UNCHANGED <<siSource, siResult, siPhase, siActivity, siCancelled, siPos,
                 siLog, siFinish, siError, kpEarly, kpBeforeRun>>
  /\ UNCHANGED <<wireVars, parVars, pruneVars, behVars, opsVars, shiftVars, eqVars, relayVars>>

\* The then callback of keep runs.
KeepRun ==
  /\ siSource.kind = "keep"
  /\ siTask = "scheduled"
  /\ siTask' = "over"
  /\ siLog' = IF KeepDelivers(siCancelled)
                THEN Append(siLog, <<siSource.values[1], "task">>)
                ELSE siLog
  /\ UNCHANGED <<siSource, siResult, siPhase, siActivity, siCancelled, siPos,
                 siFinish, siError, kpPromise, kpEarly, kpBeforeRun>>
  /\ UNCHANGED <<wireVars, parVars, pruneVars, behVars, opsVars, shiftVars, eqVars, relayVars>>

\* The caller calls finish on what subscribe returned: the disposer of each
\* and keep sets the flag, the no-op Activity does nothing, and a value that
\* is no Activity has no finish to call.
SiteFinish ==
  /\ siPhase = "returned"
  /\ siTask # "running"
  /\ siFinish < MaxSiteFinish
  /\ siFinish' = siFinish + 1
  /\ IF Finishable(siActivity)
       THEN /\ siCancelled' = (siCancelled \/ siActivity = "disposer")
            /\ UNCHANGED siError
       ELSE /\ siError' = "TypeError"
            /\ UNCHANGED siCancelled
  /\ kpEarly' = (kpEarly \/ (siSource.kind = "keep" /\ kpPromise = "pending"))
  /\ kpBeforeRun' = (kpBeforeRun \/ (siSource.kind = "keep" /\ siTask # "over"))
  /\ UNCHANGED <<siSource, siResult, siPhase, siActivity, siTask, siPos, siLog,
                 kpPromise>>
  /\ UNCHANGED <<wireVars, parVars, pruneVars, behVars, opsVars, shiftVars, eqVars, relayVars>>

LogValues(log) == [j \in 1 .. Len(log) |-> log[j][1]]

NextSite ==
  \/ SiteSubscribe
  \/ SiteEachStart
  \/ \E fin \in BOOLEAN : SiteEachStep(fin)
  \/ KeepResolve
  \/ KeepRun
  \/ SiteFinish

SpecSite == InitSite /\ [][NextSite]_vars

\* One subscription to each(S) that is never cancelled; the event loop runs
\* the timer callback, and the loop runs to its end.
InitSiteLive == InitSite /\ siSource.kind = "each"

NextSiteLive ==
  \/ SiteSubscribe
  \/ SiteEachStart
  \/ SiteEachStep(FALSE)

SpecSiteLive ==
  /\ InitSiteLive
  /\ [][NextSiteLive]_vars
  /\ WF_vars(SiteEachStart)
  /\ WF_vars(SiteEachStep(FALSE))

-----------------------------------------------------------------------------
(* Properties of pure, each and keep                                       *)

\* C13: once finish has been called on the Activity of each(S), by the caller
\* before the deferred loop starts or after it, or by the continuation while
\* an element is being delivered to it, no further element is delivered; a
\* finish made before the loop starts leaves the continuation never invoked.
C13_EachStopsWhenFinished ==
  [][(siSource.kind = "each" /\ siFinish >= 1) => siLog' = siLog]_vars

\* C13 witness: the continuation of each(S), S of three elements, called
\* finish while the second element was delivered to it, and the loop has
\* ended without delivering the third.
C13_Witness ==
  /\ siSource.kind = "each"
  /\ Len(siSource.values) = 3
  /\ siTask = "over"
  /\ siFinish = 1
  /\ LogValues(siLog) = SubSeq(siSource.values, 1, 2)

\* C14: one subscription to each(S) that is never cancelled delivers at every
\* moment a prefix of S, in the order of S, eventually has delivered exactly
\* S, and delivers nothing once its loop is over.
C14_EachDeliversAll ==
  /\ [](\E k \in 0 .. Len(siSource.values) :
          LogValues(siLog) = SubSeq(siSource.values, 1, k))
  /\ [][siTask = "over" => siLog' = siLog]_vars
  /\ (siPhase = "returned") ~> (siTask = "over" /\ LogValues(siLog) = siSource.values)

\* C14 witness: each(S), S of three elements not all equal, has delivered S
\* and its loop is over.
C14_Witness ==
  /\ siSource.kind = "each"
  /\ Len(siSource.values) = 3
  /\ siSource.values[1] # siSource.values[3]
  /\ siTask = "over"
  /\ siFinish = 0
  /\ LogValues(siLog) = siSource.values

\* C15: each(S).subscribe(c) does not invoke c before subscribe has returned:
\* every invocation of c is made by the deferred callback, on a later turn.
C15_EachIsDeferred ==
  siSource.kind = "each" =>
    /\ siPhase = "new" => siLog = <<>>
    /\ siTask \in {"none", "scheduled"} => siLog = <<>>
    /\ \A j \in 1 .. Len(siLog) : siLog[j][2] = "task"

\* C15 witness: subscribe has returned from each(S), the deferred callback has
\* not run yet and nothing was delivered; S is not empty.
C15_Witness ==
  /\ siSource.kind = "each"
  /\ siSource.values # <<>>
  /\ siPhase = "returned"
  /\ siTask = "scheduled"
  /\ siLog = <<>>

\* C16 (as claimed): once pure(v).subscribe(c) has returned, c has been
\* invoked exactly once, with v, inside the subscribe call, and is never
\* invoked again; and finish on the Activity returned raises no error and
\* changes nothing.
C16_PureOnceAndNoopFinish ==
  (siSource.kind = "pure" /\ siPhase = "returned") =>
    /\ siLog = <<<<siSource.values[1], "sync">>>>
    /\ siError = "none"
    /\ ~siCancelled

\* C17 (as claimed): one subscription to keep(promise) invokes the
\* continuation at most once, with the resolved value; never when finish was
\* called before the promise resolved; and exactly once, when the then
\* callback has run, when finish was not called before the promise resolved.
C17_KeepOnceUnlessFinishedBeforeResolution ==
  siSource.kind = "keep" =>
    /\ Len(siLog) <= 1
    /\ \A j \in 1 .. Len(siLog) : siLog[j] = <<siSource.values[1], "task">>
    /\ kpEarly => siLog = <<>>
    /\ (siTask = "over" /\ ~kpEarly) => Len(siLog) = 1

\* C17 (amended): one subscription to keep(promise) invokes the continuation
\* at most once, with the resolved value; when the then callback has run, the
\* continuation was invoked exactly once if finish was not called before the
\* callback ran, and never if it was; finish after the callback ran changes
\* nothing.
C17_KeepOnceUnlessFinishedBeforeCallback ==
  /\ [](siSource.kind = "keep" =>
          /\ Len(siLog) <= 1
          /\ \A j \in 1 .. Len(siLog) : siLog[j] = <<siSource.values[1], "task">>
          /\ kpBeforeRun => siLog = <<>>
          /\ (siTask = "over" /\ ~kpBeforeRun) => Len(siLog) = 1)
  /\ [][(siSource.kind = "keep" /\ siTask = "over") => siLog' = siLog]_vars

\* C17 witness: finish was called after the promise had resolved and before
\* the then callback ran; the callback has run and the continuation was not
\* invoked.
C17_Witness ==
  /\ siSource.kind = "keep"
  /\ kpPromise = "resolved"
  /\ ~kpEarly
  /\ kpBeforeRun
  /\ siTask = "over"
  /\ siLog = <<>>

-----------------------------------------------------------------------------
(* Behavior (Signal in src/index.ts)                                       *)
(*                                                                         *)
(* A Wire with a current value.  subscribe is Wire's subscribe followed    *)
(* by one direct invocation of the continuation with the current value;    *)
(* next stores its argument and broadcasts it unless the wire is done;     *)
(* Signal.next also returns early when its argument is falsy.  The         *)
(* invocation made by subscribe is a frame of the call stack like a        *)
(* broadcast over that one continuation, so that the handler may call the  *)
(* API while it runs.  The value 0 stands for the falsy values.            *)

Builds == {"Behavior", "Signal"}

BehValues == {0} \cup Values

Falsy(v) == v = 0

\* A mutant of next: the stored value is left as it was.
StoredValueKept(old, v) == old

\* this._value = newValue, evaluated before super.next is entered.
StoredValue(old, v) == v

\* A mutant of next: it has no guard.
NextAcceptsAlways(b, isDone, v) == TRUE

\* Behavior.next: if (!this.done) ...; Signal.next: if (this.done ||
\* !newValue) return.
NextAccepts(b, isDone, v) ==
  IF b = "Signal" THEN ~(isDone \/ Falsy(v)) ELSE ~isDone

\* A mutant of subscribe: the replay is left out once the Behavior is done.
ReplaysWhileNotDone(isDone) == ~isDone

\* Behavior.subscribe calls observer(this.value) or observer.next(this.value)
\* after super.subscribe, without a test of done.
Replays(isDone) == TRUE

InitBehavior ==
  /\ OpsIdle
  /\ ShiftIdle
  /\ EqIdle
  /\ RelayIdle
  /\ ParIdle
  /\ PruneIdle
  /\ SiteIdle
  /\ subscribers = <<>>
  /\ done = FALSE
  /\ acts = <<>>
  /\ stack = <<>>
  /\ ops = 0
  /\ build \in Builds
  /\ value \in BehValues
  /\ lastNext = value
  /\ lateNext = FALSE
  /\ stale = {}
  /\ seen = <<>>
  /\ raised = 0

\* behavior.subscribe(input): Wire's subscribe, then observer(this.value) or
\* observer.next(this.value), whether done or not.
BehSubscribe(input) ==
  /\ CallerCanAct
  /\ ops < MaxBehOps
  /\ Len(stack) < MaxDepth
  /\ ops' = ops + 1
  /\ LET observer == WrapObserver(input, Len(acts) + 1)
         kind == Normalize(WireActionReturn(done))
     IN /\ subscribers' = WireActionPush(subscribers, done, observer)
        /\ acts' = Append(acts, [obs |-> observer, kind |-> kind, calls |-> 0])
        /\ IF Replays(done)
             THEN /\ stack' = Append(stack,
                       [value |-> value, start |-> <<observer>>,
                        snap |-> <<observer>>, idx |-> 1, running |-> TRUE,
                        delivered |-> <<<<observer, value>>>>,
                        call |-> "subscribe"])
                  /\ seen' = Append(seen, <<input, value, "initial">>)
             ELSE UNCHANGED <<stack, seen>>
  /\ stale' = stale \ {Len(stack) + 1}
  /\ UNCHANGED <<done, build, value, lastNext, lateNext, raised>>
  /\ UNCHANGED <<parVars, pruneVars, siteVars, opsVars, shiftVars, eqVars, relayVars>>

\* A mutant of Wire.next: the broadcast is put off until the calls in
\* progress are over.
EnterNextDeferred(frames, frame) == <<frame>> \o frames

\* Wire.next runs its forEach inside the call: the broadcast is the innermost
\* call in progress until it is over.
EnterNext(frames, frame) == Append(frames, frame)

\* behavior.next(v): the guard, then super.next((this._value = v)), which
\* tests done itself.
BehNext(v) ==
  /\ CallerCanAct
  /\ ops < MaxBehOps
  /\ Len(stack) < MaxDepth
  /\ ops' = ops + 1
  /\ IF NextAccepts(build, done, v)
       THEN /\ value' = StoredValue(value, v)
            /\ stale' = (stale \ {Len(stack) + 1}) \cup (1 .. Len(stack))
            /\ IF done
                 THEN UNCHANGED stack
                 ELSE stack' = EnterNext(stack,
                        [value |-> v, start |-> subscribers, snap |-> subscribers,
                         idx |-> 1, running |-> FALSE, delivered |-> <<>>,
                         call |-> "next"])
       ELSE UNCHANGED <<value, stack, stale>>
  /\ lastNext' = IF done THEN lastNext ELSE v
  /\ lateNext' = (lateNext \/ done)
  /\ UNCHANGED <<subscribers, done, acts, build, seen, raised>>
  /\ UNCHANGED <<parVars, pruneVars, siteVars, opsVars, shiftVars, eqVars, relayVars>>

\* forEach invokes cont.next(value) on the next element.
BehInvoke ==
  /\ stack # <<>>
  /\ ~Top.running
  /\ Top.idx <= Len(IterTarget(Top))
  /\ stack' = [stack EXCEPT ![Len(stack)] =
       [@ EXCEPT !.running = TRUE,
                 !.delivered = Append(@, <<IterTarget(Top)[Top.idx], Top.value>>)]]
  /\ seen' = Append(seen, <<IterTarget(Top)[Top.idx].id, Top.value, "next">>)
  /\ UNCHANGED <<subscribers, done, acts, ops, build, value, lastNext, lateNext,
                 stale, raised>>
  /\ UNCHANGED <<parVars, pruneVars, siteVars, opsVars, shiftVars, eqVars, relayVars>>

\* A mutant of forEach: an error a continuation raises is swallowed and the
\* loop moves on to the next element.
AfterThrowMovesOn(frames) ==
  [frames EXCEPT ![Len(frames)] = [@ EXCEPT !.running = FALSE, !.idx = @ + 1]]

\* An error leaves cont.next(value): nothing in forEach, Wire.next or
\* Behavior.next catches it, so the call of next is over and the error is
\* with its caller.
AfterThrow(frames) == SubSeq(frames, 1, Len(frames) - 1)

\* The continuation a broadcast is running raises an error.
BehThrow ==
  /\ stack # <<>>
  /\ Top.running
  /\ Top.call = "next"
  /\ raised < MaxThrows
  /\ raised' = raised + 1
  /\ stack' = AfterThrow(stack)
  /\ UNCHANGED <<subscribers, done, acts, ops, build, value, lastNext, lateNext,
                 stale, seen>>
  /\ UNCHANGED <<parVars, pruneVars, siteVars, opsVars, shiftVars, eqVars, relayVars>>

\* behavior.finish() is Wire's finish.
BehFinish == ops < MaxBehOps /\ WireFinish

\* finish on an Activity behavior.subscribe returned.
BehActivityFinish(a) == ops < MaxBehOps /\ ActivityFinish(a)

NextBehavior ==
  \/ \E input \in Inputs : BehSubscribe(input)
  \/ \E v \in BehValues : BehNext(v)
  \/ BehInvoke
  \/ BehThrow
  \/ Return
  \/ NextReturn
  \/ BehFinish
  \/ \E a \in 1 .. MaxBehOps : BehActivityFinish(a)

SpecBehavior == InitBehavior /\ [][NextBehavior]_vars

-----------------------------------------------------------------------------
(* Properties of the Behavior                                              *)

\* A step that is a call of next: an API call that returns no Activity,
\* finishes no Activity and, made while not done, leaves done alone.
BehNextStep ==
  /\ ops' = ops + 1
  /\ acts' = acts
  /\ done' = done

\* The events of `seen` that are invocations of continuation c.
SeenBy(c) == SelectSeq(seen, LAMBDA e : e[1] = c)

\* C18 (as claimed): subscribe(c) on a Behavior that is not done invokes c
\* once with the current value inside the subscribe call; every next(v)
\* call made while not done starts a broadcast of v over all current
\* subscribers, which ends having invoked each of them with v; and the first
\* value a continuation sees is the one subscribe handed to it.
C18_InitialThenNextValues ==
  /\ [](\A c \in Inputs : SeenBy(c) # <<>> => SeenBy(c)[1][3] = "initial")
  /\ [][/\ (~done /\ Len(acts') > Len(acts)) =>
             LET observer == acts'[Len(acts')].obs
             IN /\ seen' = Append(seen, <<observer.id, value, "initial">>)
                /\ Count(subscribers', observer) >= 1
                /\ stack'[Len(stack')].running
                /\ stack'[Len(stack')].delivered = <<<<observer, value>>>>
        /\ (~done /\ BehNextStep /\ subscribers # <<>>) =>
             /\ Len(stack') = Len(stack) + 1
             /\ IterTarget(stack'[Len(stack')]) = subscribers
             /\ stack'[Len(stack')].value = lastNext'
        /\ (Len(stack') < Len(stack) /\ raised' = raised) =>
             Top.delivered = [j \in 1 .. Len(Top.start) |-> <<Top.start[j], Top.value>>]
       ]_vars

\* C19: a next(v) call on a Behavior that is done leaves value unchanged,
\* leaves done true, starts no broadcast and invokes no continuation.
C19_NextAfterFinishIsInert ==
  [][(done /\ BehNextStep) =>
       /\ value' = value
       /\ done'
       /\ stack' = stack
       /\ seen' = seen
       /\ subscribers' = subscribers]_vars

\* C19 witness: a continuation was subscribed, next was called with a value
\* other than the initial one, finish was called, and next was called again:
\* value is still the argument of the call made before finish.
C19_Witness ==
  /\ done
  /\ lateNext
  /\ stack = <<>>
  /\ Len(acts) = 1
  /\ Len(seen) = 2
  /\ seen[1][2] # seen[2][2]
  /\ value = seen[2][2]
  /\ ops = 4

\* C20 (as claimed): value is always the argument of the latest next call
\* made while not done, or the initial value when there was none, whatever
\* the argument, falsy or not; and every next(v) call made while not done
\* sets value to v and broadcasts v to every current subscriber.
C20_ValueIsLatestInput ==
  /\ [](value = lastNext)
  /\ [][(~done /\ BehNextStep /\ subscribers # <<>>) =>
          /\ value' = lastNext'
          /\ Len(stack') = Len(stack) + 1
          /\ stack'[Len(stack')].start = subscribers
          /\ stack'[Len(stack')].value = value'
       ]_vars

\* The call in progress whose handler is running is a broadcast made by next.
InBroadcast == IF stack = <<>> THEN FALSE ELSE Top.call = "next"

\* C21 (as claimed): next(v) stores v before any continuation is invoked for
\* v: at every invocation made by the broadcast of v, value is v, and a
\* continuation subscribed by a handler during the broadcast of v is replayed
\* v.
C21_ValueIsBroadcastValue ==
  [][/\ InvokeStep => value = Top.value
     /\ (InBroadcast /\ Len(acts') > Len(acts)) =>
          stack'[Len(stack')].value = Top.value
    ]_vars

\* C21 (amended): next(v) stores v in the step that starts the broadcast of
\* v, before any continuation is invoked for v; at every invocation made by
\* that broadcast value is v, and a continuation subscribed by a handler
\* during it is replayed v, unless a handler has called next with an accepted
\* argument since the broadcast started; and subscribe always replays the
\* value stored at that moment.
C21_ValueStoredBeforeBroadcast ==
  [][/\ (BehNextStep /\ Len(stack') > Len(stack)) =>
          /\ value' = stack'[Len(stack')].value
          /\ stack'[Len(stack')].delivered = <<>>
     /\ (InvokeStep /\ Len(stack) \notin stale) => value = Top.value
     /\ Len(acts') > Len(acts) => stack'[Len(stack')].value = value
     /\ (InBroadcast /\ Len(stack) \notin stale /\ Len(acts') > Len(acts)) =>
          stack'[Len(stack')].value = Top.value
    ]_vars

\* C21 witness: during the broadcast of a value other than the initial one a
\* handler subscribed a continuation, which is being replayed the broadcast
\* value.
C21_Witness ==
  /\ Len(stack) = 2
  /\ stale = {}
  /\ Len(acts) = 2
  /\ Len(seen) = 4
  /\ seen[1][2] # seen[3][2]
  /\ seen[3][3] = "next"
  /\ stack[1].call = "next"
  /\ seen[4] = <<acts[2].obs.id, stack[1].value, "initial">>
  /\ value = stack[1].value

\* The Activities subscribe calls with continuation c returned.
ActsOf(c) == {a \in 1 .. Len(acts) : acts[a].obs.id = c}

\* C37: subscribe(c) on a Behavior that is done adds nothing to the
\* subscriber collection and invokes c inside the call, once, with the stored
\* value; and a continuation that was only ever subscribed while the Behavior
\* was done is invoked once per subscribe call and never by a broadcast.
C37_SubscribeWhenDoneReplaysOnce ==
  /\ [][(done /\ Len(acts') > Len(acts)) =>
          LET observer == acts'[Len(acts')].obs
          IN /\ subscribers' = subscribers
             /\ Count(subscribers', observer) = 0
             /\ seen' = Append(seen, <<observer.id, value, "initial">>)
             /\ Len(stack') = Len(stack) + 1
             /\ stack'[Len(stack')].running
             /\ stack'[Len(stack')].delivered = <<<<observer, value>>>>]_vars
  /\ [](\A c \in Inputs :
         (\A a \in ActsOf(c) : acts[a].kind = "noop") =>
           /\ Len(SeenBy(c)) = Cardinality(ActsOf(c))
           /\ \A j \in 1 .. Len(SeenBy(c)) : SeenBy(c)[j][3] = "initial")

\* C37 witness: a broadcast gave the subscribers a new value, the Behavior
\* was finished, and a continuation subscribed afterwards was invoked once,
\* with that value.
C37_Witness ==
  /\ done
  /\ stack = <<>>
  /\ \E j \in 1 .. Len(seen) : seen[j][3] = "next" /\ seen[j][2] = value
  /\ \E c \in Inputs :
       /\ ActsOf(c) # {}
       /\ \A a \in ActsOf(c) : acts[a].kind = "noop"
       /\ SeenBy(c) = <<<<c, value, "initial">>>>

-----------------------------------------------------------------------------
(* map, filter, join and then                                              *)
(*                                                                         *)
(* Every operator subscribes an observer of its own to its source and      *)
(* hands what it makes of each value to the observer downstream; map and   *)
(* filter keep a count field in that observer object, which is made anew   *)
(* by every subscription.  A pipeline is the sequence of its stages, the   *)
(* source first.  A value the source emits runs through the stages inside  *)
(* the emitting call.  join subscribes the observer downstream of it to    *)
(* the stream it is handed: a stream that emits inside subscribe delivers  *)
(* its values there and then, a deferred one (each) emits them on later    *)
(* turns, one loop per stream.  Two subscriptions are followed: two        *)
(* independent ones to the same pipeline, or one to then(fn)(source) and   *)
(* one to join()(map(fn)(source)) that are driven by the same emissions.   *)

Lanes == {1, 2}

MapFns == {"addIndex", "double"}

StreamFns == {"pureOf", "evenOnly", "eachPair"}

Preds == {"even", "oddIndex"}

\* fn(value, index) of a map stage: arithmetic, or a function that makes a
\* stream: pure(x), shift(c => { if (0 === x % 2) c(x) }), each([x, x + 1]).
ApplyFn(f, x, i) ==
  CASE f = "addIndex" -> x + i
    [] f = "double"   -> 2 * x
    [] f = "pureOf"   -> [deferred |-> FALSE, values |-> <<x>>]
    [] f = "evenOnly" -> [deferred |-> FALSE,
                          values |-> IF x % 2 = 0 THEN <<x>> ELSE <<>>]
    [] f = "eachPair" -> [deferred |-> TRUE, values |-> <<x, x + 1>>]

\* fn(value, index) of a filter stage.
ApplyPred(q, x, i) ==
  CASE q = "even"     -> x % 2 = 0
    [] q = "oddIndex" -> i % 2 = 1

MapStage(f) == [op |-> "map", f |-> f]

FilterStage(q) == [op |-> "filter", f |-> q]

JoinStage == [op |-> "join", f |-> "none"]

\* A mutant of then: the values are doubled before fn is applied.
ThenDoubled(f, pipe) == pipe \o <<MapStage("double"), MapStage(f), JoinStage>>

\* then(fn) = (source) => join()(map(fn)(source))
Then(f, pipe) == pipe \o <<MapStage(f), JoinStage>>

\* A mutant of the observer object: one count shared by all subscriptions.
CounterShared(l) == 1

\* The observer object, and its count field, belongs to the subscription.
CounterOf(l) == l

\* A mutant of map: the count is not incremented.
MapCountStuck(i) == i

\* this.count++ in map's next
MapCountAfter(i) == i + 1

\* A mutant of filter: the count is incremented only for a value that passes.
CountAfterPassOnly(i, passed) == IF passed THEN i + 1 ELSE i

\* this.count++ in filter's next, evaluated before the test decides
CountAfter(i, passed) == i + 1

\* A mutant of join: a newly subscribed inner stream replaces the earlier ones.
ActiveReplaced(active, stream, k) ==
  <<[values |-> stream.values, pos |-> 1, at |-> k]>>

\* value.subscribe(observer) on a deferred stream: one more loop that will
\* emit to the observer at stage k.
ActiveAdded(active, stream, k) ==
  Append(active, [values |-> stream.values, pos |-> 1, at |-> k])

RECURSIVE Push(_, _, _, _)
\* What a value handed to the observer of stage k does to a subscription
\* st = [cnt, active, out]: it runs through stage k and the stages after it,
\* and is appended to out when it leaves the last one.
Push(stages, k, item, st) ==
  IF k > Len(stages)
    THEN [st EXCEPT !.out = Append(@, item)]
    ELSE
      LET sg == stages[k]
          i == st.cnt[k]
      IN CASE sg.op = "map" ->
                Push(stages, k + 1, ApplyFn(sg.f, item, i),
                     [st EXCEPT !.cnt[k] = MapCountAfter(i)])
           [] sg.op = "filter" ->
                LET passed == ApplyPred(sg.f, item, i)
                    counted == [st EXCEPT !.cnt[k] = CountAfter(i, passed)]
                IN IF passed THEN Push(stages, k + 1, item, counted) ELSE counted
           [] sg.op = "join" ->
                IF item.deferred
                  THEN [st EXCEPT !.active = ActiveAdded(@, item, k + 1)]
                  ELSE LET RECURSIVE All(_, _)
                           All(vals, t) ==
                             IF vals = <<>> THEN t
                             ELSE All(Tail(vals), Push(stages, k + 1, Head(vals), t))
                       IN All(item.values, st)

\* The inner streams a source of streams emits: stream n emits <<n, 1>>,
\* <<n, 2>>, ..., inside subscribe or deferred.
InnerStream(n, len, d) ==
  [deferred |-> d, values |-> [j \in 1 .. len |-> <<n, j>>]]

StreamSources ==
  UNION {[1 .. n -> 0 .. MaxInner] \X [1 .. n -> BOOLEAN] : n \in 1 .. MaxOpLen}

StreamsOf(src) ==
  [n \in DOMAIN src[1] |-> InnerStream(n, src[1][n], src[2][n])]

IntSources == UNION {[1 .. n -> Values] : n \in 0 .. MaxOpLen}

\* The pipelines followed.  lanes: "one" subscription to pipe, "two"
\* independent subscriptions to pipe, or "coupled": one to pipe and one to
\* ref, driven by the same emissions.  In a chain of two then stages the
\* second makes streams that emit inside subscribe.
OpShapes ==
  {[name |-> "map", pipe |-> <<MapStage(f)>>, ref |-> <<MapStage(f)>>,
    lanes |-> "two"] : f \in MapFns}
  \cup {[name |-> "filter", pipe |-> <<FilterStage(q)>>, ref |-> <<FilterStage(q)>>,
         lanes |-> "one"] : q \in Preds}
  \cup {[name |-> "mapfilter", pipe |-> <<MapStage(f), FilterStage(q)>>,
         ref |-> <<MapStage(f), FilterStage(q)>>, lanes |-> "one"] :
          f \in MapFns, q \in Preds}
  \cup {[name |-> "join", pipe |-> <<JoinStage>>, ref |-> <<JoinStage>>,
         lanes |-> "one"]}
  \cup {[name |-> "then", pipe |-> Then(f, <<>>),
         ref |-> <<MapStage(f), JoinStage>>, lanes |-> "coupled"] :
          f \in StreamFns}
  \cup {[name |-> "thenthen", pipe |-> Then(g, Then(f, <<>>)),
         ref |-> <<MapStage(f), JoinStage, MapStage(g), JoinStage>>,
         lanes |-> "coupled"] : f \in StreamFns, g \in StreamFns \ {"eachPair"}}

StagesOf(l) == IF l = 1 THEN opShape.pipe ELSE opShape.ref

\* The subscriptions one step of the source concerns.
StepSets ==
  CASE opShape.lanes = "coupled" -> {Lanes}
    [] opShape.lanes = "two"     -> {{l} : l \in Lanes}
    [] opShape.lanes = "one"     -> {{1}}

InitOps ==
  /\ WireIdle
  /\ ParIdle
  /\ PruneIdle
  /\ SiteIdle
  /\ BehIdle
  /\ ShiftIdle
  /\ EqIdle
  /\ RelayIdle
  /\ opShape \in OpShapes
  /\ opSource \in (IF opShape.name = "join"
                     THEN {StreamsOf(src) : src \in StreamSources}
                     ELSE IntSources)
  /\ opSub = {}
  /\ opPos = [l \in Lanes |-> 1]
  /\ opCnt = [l \in Lanes |-> [k \in 1 .. Len(StagesOf(l)) |-> 0]]
  /\ opActive = [l \in Lanes |-> <<>>]
  /\ opOut = [l \in Lanes |-> <<>>]
  /\ opFinish = [l \in Lanes |-> 0]
  /\ opDisposed = [l \in Lanes |-> 0]
  /\ opLate = [l \in Lanes |-> 0]

\* The state of subscription l as Push sees it.
LaneState(l) ==
  [cnt |-> opCnt[CounterOf(l)], active |-> opActive[l], out |-> opOut[l]]

\* The subscriptions of L have become what `after` says.
Settle(L, after) ==
  /\ opCnt' = [c \in Lanes |->
                 IF \E l \in L : CounterOf(l) = c
                   THEN after[CHOOSE l \in L : CounterOf(l) = c].cnt
                   ELSE opCnt[c]]
  /\ opActive' = [l \in Lanes |-> IF l \in L THEN after[l].active ELSE opActive[l]]
  /\ opOut' = [l \in Lanes |-> IF l \in L THEN after[l].out ELSE opOut[l]]
  /\ opLate' = [l \in Lanes |->
                  IF l \in L /\ opFinish[l] > 0
                    THEN opLate[l] + Len(after[l].out) - Len(opOut[l])
                    ELSE opLate[l]]

\* pipeline.subscribe(c): every stage subscribes its observer, with count 0,
\* to the stage before it.
OpSubscribe(L) ==
  /\ L \in StepSets
  /\ L \cap opSub = {}
  /\ opSub' = opSub \cup L
  /\ opCnt' = [c \in Lanes |->
                 IF \E l \in L : CounterOf(l) = c
                   THEN [k \in DOMAIN opCnt[c] |-> 0]
                   ELSE opCnt[c]]
  /\ UNCHANGED <<opShape, opSource, opPos, opActive, opOut, opFinish,
                 opDisposed, opLate>>
  /\ UNCHANGED <<wireVars, parVars, pruneVars, siteVars, behVars, shiftVars, eqVars, relayVars>>

\* The source emits its next value to the subscriptions of L; it emits
\* nothing once its disposer has been called.
OpEmit(L) ==
  /\ L \in StepSets
  /\ L \subseteq opSub
  /\ \A l \in L : opPos[l] <= Len(opSource) /\ opDisposed[l] = 0
  /\ opPos' = [l \in Lanes |-> IF l \in L THEN opPos[l] + 1 ELSE opPos[l]]
  /\ Settle(L, [l \in L |->
                  Push(StagesOf(l), 1, opSource[opPos[l]], LaneState(l))])
  /\ UNCHANGED <<opShape, opSource, opSub, opFinish, opDisposed>>
  /\ UNCHANGED <<wireVars, parVars, pruneVars, siteVars, behVars, shiftVars, eqVars, relayVars>>

\* The loop of the a-th deferred inner stream emits its next value.
OpTick(L, a) ==
  /\ L \in StepSets
  /\ L \subseteq opSub
  /\ \A l \in L : /\ a <= Len(opActive[l])
                  /\ opActive[l][a].pos <= Len(opActive[l][a].values)
  /\ Settle(L, [l \in L |->
       LET inner == opActive[l][a]
           st == [LaneState(l) EXCEPT !.active[a].pos = inner.pos + 1]
       IN Push(StagesOf(l), inner.at, inner.values[inner.pos], st)])
  /\ UNCHANGED <<opShape, opSource, opSub, opPos, opFinish, opDisposed>>
  /\ UNCHANGED <<wireVars, parVars, pruneVars, siteVars, behVars, shiftVars, eqVars, relayVars>>

\* What source.subscribe returns to the first stage: the source's
\* subscription function returns a disposer, which subscribe makes the finish
\* of an Activity.
UpstreamActivity == [kind |-> Normalize("function"), calls |-> "source"]

\* A mutant of a stage: its subscription function returns nothing.
StageActivityDropped(sg, upstream) ==
  [kind |-> Normalize("undefined"), calls |-> "nothing"]

\* What subscribing to a stage returns: map, filter and join hand
\* source.subscribe(...) back from their subscription function, and subscribe
\* returns an Activity as it is.  The Activities of the inner streams join's
\* callback gets from value.subscribe(observer) go to the emitting source,
\* not into this value.
StageActivity(sg, upstream) == [upstream EXCEPT !.kind = Normalize(upstream.kind)]

RECURSIVE PipelineActivity(_, _, _)
\* What subscribing to the whole pipeline returns, stage k being subscribed
\* to the stage before it.
PipelineActivity(stages, k, upstream) ==
  IF k > Len(stages) THEN upstream
  ELSE PipelineActivity(stages, k + 1, StageActivity(stages[k], upstream))

\* A mutant of finish: it stops the loops of the inner streams too.
ActiveAfterFinishCleared(active) ==
  [a \in DOMAIN active |-> [active[a] EXCEPT !.pos = Len(active[a].values) + 1]]

\* The loops of the inner streams after a finish call on the pipeline's
\* Activity: nothing holds their Activities, so they run on.
ActiveAfterFinish(active) == active

\* finish on the Activity the subscribe calls of L returned.
OpFinish(L) ==
  /\ L \in StepSets
  /\ L \subseteq opSub
  /\ \A l \in L : opFinish[l] < MaxOpFinish
  /\ opFinish' = [l \in Lanes |-> IF l \in L THEN opFinish[l] + 1 ELSE opFinish[l]]
  /\ opDisposed' = [l \in Lanes |->
       LET activity == PipelineActivity(StagesOf(l), 1, UpstreamActivity)
       IN IF l \in L /\ Finishable(activity.kind) /\ activity.calls = "source"
            THEN opDisposed[l] + 1
            ELSE opDisposed[l]]
  /\ opActive' = [l \in Lanes |->
                    IF l \in L THEN ActiveAfterFinish(opActive[l]) ELSE opActive[l]]
  /\ UNCHANGED <<opShape, opSource, opSub, opPos, opCnt, opOut, opLate>>
  /\ UNCHANGED <<wireVars, parVars, pruneVars, siteVars, behVars, shiftVars, eqVars, relayVars>>

\* The deferred streams one subscription can hold: one per value of the
\* source.
MaxActive == MaxOpLen

NextOps ==
  \/ \E L \in SUBSET Lanes : OpSubscribe(L)
  \/ \E L \in SUBSET Lanes : OpEmit(L)
  \/ \E L \in SUBSET Lanes : \E a \in 1 .. MaxActive : OpTick(L, a)
  \/ \E L \in SUBSET Lanes : OpFinish(L)

SpecOps == InitOps /\ [][NextOps]_vars

-----------------------------------------------------------------------------
(* Properties of map, filter, join and then                                *)

\* The values of vals whose position, counted from 0, and value satisfy q.
Kept(vals, q) ==
  LET idx == SelectSeq([j \in 1 .. Len(vals) |-> j],
                       LAMBDA j : ApplyPred(q, vals[j], j - 1))
  IN [m \in 1 .. Len(idx) |-> vals[idx[m]]]

\* What the source has emitted to subscription l so far.
EmittedTo(l) == SubSeq(opSource, 1, opPos[l] - 1)

\* fn applied to every value with its position counted from 0.
Mapped(vals, f) == [j \in 1 .. Len(vals) |-> ApplyFn(f, vals[j], j - 1)]

\* C22: a subscription to map(fn)(source) has been delivered fn(x, i) for
\* every value x the source has emitted to it, i its position counted from 0,
\* once each and in source order; a second subscription to the same mapped
\* stream counts from 0 on its own.
C22_MapAppliesFnWithIndex ==
  opShape.name = "map" =>
    \A l \in Lanes : opOut[l] = Mapped(EmittedTo(l), opShape.pipe[1].f)

\* C22 witness: two subscriptions to map((x, i) => x + i)(source) have each
\* been delivered two values, the second with index 1.
C22_Witness ==
  /\ opShape.name = "map"
  /\ opShape.pipe[1].f = "addIndex"
  /\ opPos = [l \in Lanes |-> 3]
  /\ opOut[1] = <<opSource[1], opSource[2] + 1>>
  /\ opOut[2] = opOut[1]

\* C23: a subscription to filter(pred)(source) has been delivered, unchanged
\* and in source order, exactly the values x the source has emitted to it for
\* which pred(x, i) holds, i the position of x among all values emitted.
C23_FilterKeepsByPredAndIndex ==
  opShape.name = "filter" =>
    \A l \in Lanes : opOut[l] = Kept(EmittedTo(l), opShape.pipe[1].f)

\* C23 witness: filter((x, i) => i is odd) has dropped the first value of the
\* source and delivered the second.
C23_Witness ==
  /\ opShape.name = "filter"
  /\ opShape.pipe[1].f = "oddIndex"
  /\ opPos[1] = 3
  /\ opOut[1] = <<opSource[2]>>

\* C24: filter(p)(map(f)(source)) has delivered f(x, i) exactly for the
\* values whose image satisfies p(f(x, i), i'), i' the position of the image
\* in the stream map delivers, in order.
C24_FilterAfterMap ==
  opShape.name = "mapfilter" =>
    \A l \in Lanes :
      opOut[l] = Kept(Mapped(EmittedTo(l), opShape.pipe[1].f), opShape.pipe[2].f)

\* C24 witness: with f = (x, i) => x + i and p = even, the source <<1, 1>> has
\* delivered 2, the image of its second value, and not the image of the first.
C24_Witness ==
  /\ opShape.name = "mapfilter"
  /\ opShape.pipe[1].f = "addIndex"
  /\ opShape.pipe[2].f = "even"
  /\ opSource = <<1, 1>>
  /\ opPos[1] = 3
  /\ opOut[1] = <<2>>

\* The values of inner stream n delivered to subscription l.
FromInner(l, n) == SelectSeq(opOut[l], LAMBDA e : e[1] = n)

\* C25: in a subscription to join()(outer) every inner stream the outer has
\* emitted is subscribed, whether the earlier ones have ended or not: a stream
\* that emits inside subscribe has delivered all its values, a deferred one
\* has its own loop, which has delivered a prefix of its values; no value of a
\* stream not yet emitted was delivered, and no value was delivered twice.
C25_JoinSubscribesEveryInner ==
  opShape.name = "join" =>
    \A l \in Lanes :
      /\ Len(opActive[l]) =
           Cardinality({n \in 1 .. opPos[l] - 1 : opSource[n].deferred})
      /\ \A n \in 1 .. Len(opSource) :
           IF n >= opPos[l] THEN FromInner(l, n) = <<>>
           ELSE IF ~opSource[n].deferred
             THEN FromInner(l, n) = opSource[n].values
             ELSE \E a \in 1 .. Len(opActive[l]) :
                    /\ opActive[l][a].values = opSource[n].values
                    /\ FromInner(l, n) =
                         SubSeq(opSource[n].values, 1, opActive[l][a].pos - 1)

\* C25 witness: two deferred inner streams of two values each; the second was
\* subscribed, and has delivered a value, before the first has ended.
C25_Witness ==
  /\ opShape.name = "join"
  /\ Len(opSource) = 2
  /\ opSource[1].deferred
  /\ opSource[2].deferred
  /\ opOut[1] = <<<<1, 1>>, <<2, 1>>, <<1, 2>>, <<2, 2>>>>

C34_FinishReachesSource ==
  \A l \in Lanes : opDisposed[l] = opFinish[l]

\* C34 witness: finish was called twice on the Activity of then(fn)(source)
\* and the source's disposer was called twice.
C34_Witness ==
  /\ opShape.name = "then"
  /\ opFinish[1] = 2
  /\ opDisposed[1] = 2

-----------------------------------------------------------------------------
(* Observable.subscribe and shift                                          *)
(*                                                                         *)
(* shift(fn) makes an observable whose subscription function is            *)
(*   (observer) => fn((value) => observer.next(value)).                    *)
(* fn is a straight-line program: calls of k, each with a value of its own *)
(* or with the result of the call before, and then a return.  subscribe    *)
(* runs fn once and turns what fn returned into what the caller gets.      *)

\* The value undefined, which is falsy as the number 0 is.
Undefined == 0

\* The arguments fn passes to k: a value, or the result of its latest call.
KArgs == [prev : {FALSE}, v : Values] \cup {[prev |-> TRUE, v |-> Undefined]}

\* fn's calls of k; the first call has no result before it to pass on.
KCalls ==
  {cs \in UNION {[1 .. m -> KArgs] : m \in 0 .. MaxCalls} :
     Len(cs) > 0 => ~cs[1].prev}

\* What fn returns: nothing, a disposer function, an Activity object, or the
\* result of its latest call of k (return times2(six)).
FnReturns == {"undefined", "function", "activity", "last"}

ShiftFns == [calls : KCalls, ret : FnReturns]

\* The downstream continuation returns twice its argument, or nothing.
Conts == {"double", "void"}

\* subscribe is handed an Observer object or a plain unary function.
ObserverKinds == {"object", "function"}

ContResult(cont, v) == IF cont = "double" THEN v * 2 ELSE Undefined

\* observer.next(v): the object's own next, or that of the wrapper subscribe
\* puts around a plain function, next(v) { return observer(v); }.
ObserverNext(kind, cont, v) == ContResult(cont, v)

\* A mutant of k: it invokes the continuation and returns nothing.
KReturnsNothing(result) == Undefined

\* k is (value) => observer.next(value): it returns the invocation's result.
K(result) == result

\* The object the n-th run of fn returns.  finish names the callable that
\* belongs to it: the function itself or the Activity's finish method.
FnObject(ret, last, n) ==
  LET kind == IF ret = "last"
                THEN (IF last = Undefined THEN "undefined" ELSE "number")
                ELSE ret
  IN  [kind |-> kind, by |-> "fn", n |-> n,
       finish |-> IF kind \in {"function", "activity"} THEN n ELSE 0]

\* A mutant of subscribe's return: it wraps whatever it got.
SubscribeReturnWrapsAll(finish, n) ==
  [kind |-> "disposer", by |-> "subscribe", n |-> n, finish |-> finish.finish]

\* What the n-th subscribe call returns for the value finish of _action:
\*   !finish ? { finish() { return; } }
\*   : "function" === typeof finish ? { finish } : finish
SubscribeReturn(finish, n) ==
  CASE Normalize(finish.kind) = "noop" ->
         [kind |-> "noop", by |-> "subscribe", n |-> n, finish |-> 0]
    [] Normalize(finish.kind) = "disposer" ->
         [kind |-> "disposer", by |-> "subscribe", n |-> n,
          finish |-> finish.finish]
    [] OTHER -> finish

InitShift ==
  /\ WireIdle
  /\ ParIdle
  /\ PruneIdle
  /\ SiteIdle
  /\ BehIdle
  /\ OpsIdle
  /\ EqIdle
  /\ RelayIdle
  /\ shFn \in ShiftFns
  /\ shCont \in Conts
  /\ shObserver = "object"
  /\ shPhase = "idle"
  /\ shPc = 1
  /\ shLast = Undefined
  /\ shKCalls = 0
  /\ shDelivered = <<>>
  /\ shResults = <<>>
  /\ shActionCalls = 0
  /\ shReturned = <<>>
  /\ shFinishCalls = <<>>
  /\ shDisposed = <<>>
  /\ shError = "none"

\* observable.subscribe(observer): _action is invoked and fn starts to run.
ShiftSubscribe(kind) ==
  /\ shPhase = "idle"
  /\ shError = "none"
  /\ Len(shReturned) < MaxSubs
  /\ shObserver' = kind
  /\ shPhase' = "running"
  /\ shPc' = 1
  /\ shLast' = Undefined
  /\ shKCalls' = 0
  /\ shDelivered' = <<>>
  /\ shResults' = <<>>
  /\ shActionCalls' = shActionCalls + 1
  /\ UNCHANGED <<shFn, shCont, shReturned, shFinishCalls, shDisposed, shError>>
  /\ UNCHANGED <<wireVars, parVars, pruneVars, siteVars, behVars, opsVars, eqVars, relayVars>>

\* fn calls k: the continuation is invoked and its result comes back to fn.
ShiftK ==
  /\ shPhase = "running"
  /\ shPc <= Len(shFn.calls)
  /\ LET arg == IF shFn.calls[shPc].prev THEN shLast ELSE shFn.calls[shPc].v
         result == K(ObserverNext(shObserver, shCont, arg))
     IN  /\ shDelivered' = Append(shDelivered, arg)
         /\ shResults' = Append(shResults, result)
         /\ shLast' = result
  /\ shKCalls' = shKCalls + 1
  /\ shPc' = shPc + 1
  /\ UNCHANGED <<shFn, shCont, shObserver, shPhase, shActionCalls, shReturned,
                 shFinishCalls, shDisposed, shError>>
  /\ UNCHANGED <<wireVars, parVars, pruneVars, siteVars, behVars, opsVars, eqVars, relayVars>>

\* fn returns and subscribe returns what it makes of fn's return value.
ShiftReturn ==
  /\ shPhase = "running"
  /\ shPc > Len(shFn.calls)
  /\ LET n == Len(shReturned) + 1
     IN  shReturned' =
           Append(shReturned, SubscribeReturn(FnObject(shFn.ret, shLast, n), n))
  /\ shFinishCalls' = Append(shFinishCalls, 0)
  /\ shDisposed' = Append(shDisposed, 0)
  /\ shPhase' = "idle"
  /\ UNCHANGED <<shFn, shCont, shObserver, shPc, shLast, shKCalls, shDelivered,
                 shResults, shActionCalls, shError>>
  /\ UNCHANGED <<wireVars, parVars, pruneVars, siteVars, behVars, opsVars, eqVars, relayVars>>

\* The caller calls finish on what the i-th subscribe call returned: nothing
\* happens on the no-op Activity, the callable fn returned is called on a
\* wrapped disposer and on fn's own Activity, and any other value has no
\* finish to call.
ShiftFinish(i) ==
  /\ shPhase = "idle"
  /\ shError = "none"
  /\ i \in 1 .. Len(shReturned)
  /\ shFinishCalls[i] < MaxShiftFinish
  /\ shFinishCalls' = [shFinishCalls EXCEPT ![i] = @ + 1]
  /\ LET a == shReturned[i]
     IN  IF ~Finishable(a.kind)
           THEN /\ shError' = "TypeError"
                /\ UNCHANGED shDisposed
           ELSE /\ shDisposed' =
                     IF a.finish = 0 THEN shDisposed
                     ELSE [shDisposed EXCEPT ![a.finish] = @ + 1]
                /\ UNCHANGED shError
  /\ UNCHANGED <<shFn, shCont, shObserver, shPhase, shPc, shLast, shKCalls,
                 shDelivered, shResults, shActionCalls, shReturned>>
  /\ UNCHANGED <<wireVars, parVars, pruneVars, siteVars, behVars, opsVars, eqVars, relayVars>>

\* C29: every subscribe call invokes the subscription function once; when it
\* returns nothing the caller gets an Activity made by that subscribe call
\* whose finish calls nothing, when it returns a function the caller gets an
\* Activity whose finish calls that function, and when it returns an Activity
\* the caller gets that very object.
C29_SubscribeMapsReturn ==
  /\ shActionCalls = Len(shReturned) + (IF shPhase = "running" THEN 1 ELSE 0)
  /\ \A i \in 1 .. Len(shReturned) :
       LET a == shReturned[i]
       IN  /\ shFn.ret = "undefined" =>
                /\ a.kind = "noop" /\ a.by = "subscribe" /\ a.n = i
                /\ shDisposed[i] = 0
           /\ shFn.ret = "function" =>
                /\ a.by = "subscribe" /\ a.n = i
                /\ shDisposed[i] = shFinishCalls[i]
           /\ shFn.ret = "activity" =>
                /\ a = [kind |-> "activity", by |-> "fn", n |-> i, finish |-> i]
                /\ shDisposed[i] = shFinishCalls[i]

\* C29 witness: two subscribe calls on an observable whose subscription
\* function returns an Activity; each got that run's own object, and finish
\* was called on the first.
C29_Witness ==
  /\ shFn.ret = "activity"
  /\ Len(shReturned) = 2
  /\ shReturned[1].by = "fn"
  /\ shReturned[1] # shReturned[2]
  /\ shFinishCalls[1] = 1
  /\ shDisposed[1] = 1

\* C30: every call of k invokes the continuation once, with k's argument,
\* and gives its result back to fn, whatever the number of calls; and finish
\* on the Activity of a subscription whose fn returned a disposer calls that
\* disposer.
C30_ShiftCallsDownstream ==
  /\ Len(shDelivered) = shKCalls
  /\ Len(shResults) = shKCalls
  /\ \A j \in 1 .. shKCalls :
       /\ shDelivered[j] = (IF shFn.calls[j].prev THEN shResults[j - 1]
                                                  ELSE shFn.calls[j].v)
       /\ shResults[j] = ContResult(shCont, shDelivered[j])
  /\ \A i \in 1 .. Len(shReturned) :
       shFn.ret = "function" =>
         /\ shReturned[i].finish = i
         /\ shDisposed[i] = shFinishCalls[i]

\* C30 witness: fn calls k with a value and then with the result of that
\* call, the continuation doubles, fn returns a disposer and finish was
\* called on the Activity.
C30_Witness ==
  /\ shCont = "double"
  /\ shFn.ret = "function"
  /\ Len(shFn.calls) = 2
  /\ shFn.calls[2].prev
  /\ shPhase = "idle"
  /\ shDelivered = <<shFn.calls[1].v, 2 * shFn.calls[1].v>>
  /\ shResults = <<2 * shFn.calls[1].v, 4 * shFn.calls[1].v>>
  /\ Len(shReturned) = 1
  /\ shFinishCalls[1] = 1
  /\ shDisposed[1] = 1

\* C33 (as claimed): whatever the subscription function returned, finish can
\* be called on what subscribe returned without raising an error.
C33_FinishNeverRaises ==
  /\ shError = "none"
  /\ \A i \in 1 .. Len(shReturned) : Finishable(shReturned[i].kind)

NextShift ==
  \/ \E kind \in ObserverKinds : ShiftSubscribe(kind)
  \/ ShiftK
  \/ ShiftReturn
  \/ \E i \in 1 .. MaxSubs : ShiftFinish(i)

SpecShift == InitShift /\ [][NextShift]_vars

-----------------------------------------------------------------------------
(* A plain function and the Continuation that calls it                     *)
(*                                                                         *)
(* One program is run twice on a Wire or Behavior.  The first run          *)
(* subscribes the plain function f1 wherever the second subscribes the     *)
(* Continuation c1 whose next(v) returns f1(v); both subscribe the         *)
(* Continuation c2 alike.  The handlers call nothing back.                 *)

EqClasses == {"Wire", "Behavior"}

\* What the program subscribes.
EqInputs == {"f1", "c2"}

\* The Continuation whose next(v) returns f(v), for the functions.
ContinuationOf(input) == IF input \in ContFunctions THEN "c1" ELSE input

\* The function that runs when the observer is invoked: the wrapper subscribe
\* made calls the function, and c1 calls f1.
Runs(observer) == IF observer.id = "c1" THEN "f1" ELSE observer.id

\* forEach over the copy of the collection: the calls one broadcast makes.
Broadcast(subs, v) == [j \in 1 .. Len(subs) |-> <<Runs(subs[j]), v>>]

\* The replay Behavior.subscribe makes; a Wire makes none.
Replay(class, observer, v) ==
  IF class = "Behavior" THEN <<<<Runs(observer), v>>>> ELSE <<>>

InitEquiv ==
  /\ WireIdle
  /\ ParIdle
  /\ PruneIdle
  /\ SiteIdle
  /\ BehIdle
  /\ OpsIdle
  /\ ShiftIdle
  /\ RelayIdle
  /\ eqClass \in EqClasses
  /\ eqSubsF = <<>>
  /\ eqSubsC = <<>>
  /\ eqActsF = <<>>
  /\ eqActsC = <<>>
  /\ eqDone = FALSE
  /\ eqValue \in BehValues
  /\ eqOutF = <<>>
  /\ eqOutC = <<>>
  /\ eqOps = 0

\* subscribe(input) in the first run, subscribe(ContinuationOf(input)) in the
\* second.
EqSubscribe(input) ==
  /\ eqOps < MaxEqOps
  /\ eqOps' = eqOps + 1
  /\ LET n == Len(eqActsF) + 1
         obsF == WrapObserver(input, n)
         obsC == WrapObserver(ContinuationOf(input), n)
         kind == Normalize(WireActionReturn(eqDone))
     IN  /\ eqSubsF' = WireActionPush(eqSubsF, eqDone, obsF)
         /\ eqSubsC' = WireActionPush(eqSubsC, eqDone, obsC)
         /\ eqActsF' = Append(eqActsF, [obs |-> obsF, kind |-> kind])
         /\ eqActsC' = Append(eqActsC, [obs |-> obsC, kind |-> kind])
         /\ eqOutF' = eqOutF \o Replay(eqClass, obsF, eqValue)
         /\ eqOutC' = eqOutC \o Replay(eqClass, obsC, eqValue)
  /\ UNCHANGED <<eqClass, eqDone, eqValue>>
  /\ UNCHANGED <<wireVars, parVars, pruneVars, siteVars, behVars, opsVars,
                 shiftVars, relayVars>>

\* finish on the a-th Activity, in both runs.
EqActivityFinish(a) ==
  /\ eqOps < MaxEqOps
  /\ a \in 1 .. Len(eqActsF)
  /\ eqOps' = eqOps + 1
  /\ eqSubsF' = IF eqActsF[a].kind = "disposer"
                  THEN Unsubscribe(eqSubsF, eqActsF[a].obs) ELSE eqSubsF
  /\ eqSubsC' = IF eqActsC[a].kind = "disposer"
                  THEN Unsubscribe(eqSubsC, eqActsC[a].obs) ELSE eqSubsC
  /\ UNCHANGED <<eqClass, eqActsF, eqActsC, eqDone, eqValue, eqOutF, eqOutC>>
  /\ UNCHANGED <<wireVars, parVars, pruneVars, siteVars, behVars, opsVars,
                 shiftVars, relayVars>>

\* next(v), in both runs.
EqNext(v) ==
  /\ eqOps < MaxEqOps
  /\ eqOps' = eqOps + 1
  /\ IF eqDone
       THEN UNCHANGED <<eqValue, eqOutF, eqOutC>>
       ELSE /\ eqValue' = IF eqClass = "Behavior" THEN StoredValue(eqValue, v)
                                                 ELSE eqValue
            /\ eqOutF' = eqOutF \o Broadcast(eqSubsF, v)
            /\ eqOutC' = eqOutC \o Broadcast(eqSubsC, v)
  /\ UNCHANGED <<eqClass, eqSubsF, eqSubsC, eqActsF, eqActsC, eqDone>>
  /\ UNCHANGED <<wireVars, parVars, pruneVars, siteVars, behVars, opsVars,
                 shiftVars, relayVars>>

\* finish on the Wire, in both runs.
EqFinish ==
  /\ eqOps < MaxEqOps
  /\ eqOps' = eqOps + 1
  /\ eqSubsF' = <<>>
  /\ eqSubsC' = <<>>
  /\ eqDone' = TRUE
  /\ UNCHANGED <<eqClass, eqActsF, eqActsC, eqValue, eqOutF, eqOutC>>
  /\ UNCHANGED <<wireVars, parVars, pruneVars, siteVars, behVars, opsVars,
                 shiftVars, relayVars>>

\* C31 (as claimed): the run that subscribes the function and the run that
\* subscribes the Continuation calling it make the same calls of the same
\* functions with the same values in the same order, whatever finish calls
\* were made on the Activities.
C31_FunctionIsContinuation == eqOutF = eqOutC

NextEquiv ==
  \/ \E input \in EqInputs : EqSubscribe(input)
  \/ \E a \in 1 .. MaxEqOps : EqActivityFinish(a)
  \/ \E v \in Values : EqNext(v)
  \/ EqFinish

SpecEquiv == InitEquiv /\ [][NextEquiv]_vars

-----------------------------------------------------------------------------
(* A Wire subscribed to a Wire                                             *)
(*                                                                         *)
(* w1 and w2 are Wires; a Wire has a next method, so w2 can be subscribed  *)
(* to w1 as a continuation.  The checker c, which calls nothing back, can  *)
(* be subscribed to either.                                                *)

RelayWires == {1, 2}

\* What can be subscribed to each Wire.
RelayObservers(w) == IF w = 1 THEN {"c", "w2"} ELSE {"c"}

\* A mutant of w2.next: it invokes nothing.
NextCallsNone(w, subs, isDone, v) == <<>>

\* The calls w.next(v) makes when all its subscribers are checkers: none when
\* done, else one per entry of the collection.
NextCalls(w, subs, isDone, v) ==
  IF isDone THEN <<>> ELSE [j \in 1 .. Len(subs) |-> <<w, v>>]

RECURSIVE RelayCalls(_, _, _, _)
\* The calls of the checker w1.next(v) leads to, over what is left of its
\* copy of the collection: the checker is called, and w2.next(v) is entered.
RelayCalls(rest, subs2, done2, v) ==
  IF rest = <<>> THEN <<>>
  ELSE (IF Head(rest) = "w2" THEN NextCalls(2, subs2, done2, v)
                             ELSE <<<<1, v>>>>)
         \o RelayCalls(Tail(rest), subs2, done2, v)

InitRelay ==
  /\ WireIdle
  /\ ParIdle
  /\ PruneIdle
  /\ SiteIdle
  /\ BehIdle
  /\ OpsIdle
  /\ ShiftIdle
  /\ EqIdle
  /\ rlSubs = [w \in RelayWires |-> <<>>]
  /\ rlDone = [w \in RelayWires |-> FALSE]
  /\ rlLog = <<>>
  /\ rlNext = <<0, 0>>
  /\ rlNexts = 0
  /\ rlOps = 0

\* w.subscribe(x)
RelaySubscribe(w, x) ==
  /\ rlOps < MaxRelayOps
  /\ x \in RelayObservers(w)
  /\ rlOps' = rlOps + 1
  /\ rlSubs' = [rlSubs EXCEPT ![w] = WireActionPush(@, rlDone[w], x)]
  /\ UNCHANGED <<rlDone, rlLog, rlNext, rlNexts>>
  /\ UNCHANGED <<wireVars, parVars, pruneVars, siteVars, behVars, opsVars,
                 shiftVars, eqVars>>

\* w.next(v)
RelayNext(w, v) ==
  /\ rlOps < MaxRelayOps
  /\ rlOps' = rlOps + 1
  /\ rlNexts' = rlNexts + 1
  /\ rlNext' = <<w, v>>
  /\ rlLog' = rlLog \o
       (IF w = 2 THEN NextCalls(2, rlSubs[2], rlDone[2], v)
        ELSE IF rlDone[1] THEN <<>>
        ELSE RelayCalls(rlSubs[1], rlSubs[2], rlDone[2], v))
  /\ UNCHANGED <<rlSubs, rlDone>>
  /\ UNCHANGED <<wireVars, parVars, pruneVars, siteVars, behVars, opsVars,
                 shiftVars, eqVars>>

\* w.finish()
RelayFinish(w) ==
  /\ rlOps < MaxRelayOps
  /\ rlOps' = rlOps + 1
  /\ rlSubs' = [rlSubs EXCEPT ![w] = <<>>]
  /\ rlDone' = [rlDone EXCEPT ![w] = TRUE]
  /\ UNCHANGED <<rlLog, rlNext, rlNexts>>
  /\ UNCHANGED <<wireVars, parVars, pruneVars, siteVars, behVars, opsVars,
                 shiftVars, eqVars>>

\* The calls of the checker the step made.
NewCalls == SubSeq(rlLog', Len(rlLog) + 1, Len(rlLog'))

\* C36: a call w1.next(v) made while w1 is not done calls the checker with v
\* once per entry of w1's collection that is the checker and, while w2 is not
\* done, once per subscriber of w2 for every entry that is w2: twice when the
\* checker is subscribed once to each and w2 once to w1; and a call of next
\* on w2, by w1 or by the caller, calls nothing once w2 is finished.
C36_WireRelaysToItsSubscribers ==
  [][rlNexts' = rlNexts + 1 =>
       LET w == rlNext'[1]
           v == rlNext'[2]
       IN /\ \A j \in 1 .. Len(NewCalls) : NewCalls[j][2] = v
          /\ (w = 1 /\ ~rlDone[1]) =>
               Len(NewCalls) =
                 Count(rlSubs[1], "c") +
                   (IF rlDone[2] THEN 0
                    ELSE Count(rlSubs[1], "w2") * Len(rlSubs[2]))
          /\ (w = 1 /\ ~rlDone[1] /\ ~rlDone[2]
                /\ Count(rlSubs[1], "c") = 1 /\ Count(rlSubs[1], "w2") = 1
                /\ rlSubs[2] = <<"c">>) => Len(NewCalls) = 2
          /\ rlDone[2] => \A j \in 1 .. Len(NewCalls) : NewCalls[j][1] # 2
          /\ (w = 2 /\ rlDone[2]) => NewCalls = <<>>]_vars

\* C36 witness: the checker is subscribed to w1 and to w2 and w2 to w1, and
\* the one call w1.next(v) has called the checker twice with v, once from
\* each Wire.
C36_Witness ==
  /\ rlSubs[1] = <<"c", "w2">>
  /\ rlSubs[2] = <<"c">>
  /\ rlNexts = 1
  /\ rlNext[1] = 1
  /\ rlLog = <<<<1, rlNext[2]>>, <<2, rlNext[2]>>>>

NextRelay ==
  \/ \E w \in RelayWires : \E x \in RelayObservers(w) : RelaySubscribe(w, x)
  \/ \E w \in RelayWires : \E v \in Values : RelayNext(w, v)
  \/ \E w \in RelayWires : RelayFinish(w)

SpecRelay == InitRelay /\ [][NextRelay]_vars

====
